---- MODULE Spec2Model ----
(***************************************************************************)
(* Model of the Things MCP server: the URL builder and dispatcher of       *)
(* ThingsClient (src/src/things-client.js), the tool handlers              *)
(* (src/src/tools/*.js) and the call_tool layer (src/src/index.js).        *)
(*                                                                         *)
(* A JavaScript string is a sequence of code units.  Each element is a     *)
(* one-character string; a run of unreserved characters [A-Za-z0-9_-]      *)
(* that the code never looks into ("title", "auth-token", "add-project")   *)
(* may be held as one element.                                             *)
(***************************************************************************)
EXTENDS Integers, Sequences, FiniteSets, TLC

VARIABLES
    platform,      \* os.platform()
    envToken,      \* process.env.THINGS_AUTHENTICATION_TOKEN
    authToken,     \* ThingsClient.authToken, read once by the constructor
    phase,         \* "boot" | "serving" | "exited" | "unit"
    pc,            \* per call slot: position of the handler
    tool,          \* per call slot: name of the requested tool
    args,          \* per call slot: the arguments object of the request
    idx,           \* per call slot: loop variable i of a batch handler (0-based)
    results,       \* per call slot: the results array of a batch handler
    successCount,  \* per call slot
    failureCount,  \* per call slot
    opened,        \* per call slot: URLs handed to open(), in order
    log,           \* per call slot: lines written by console.error / console.warn
    outcome,       \* per call slot: what the call_tool handler answered
    uCommand,      \* unit level: command given to buildUrl
    uParams,       \* unit level: params given to buildUrl
    uUrl           \* unit level: [done, threw, url] result of buildUrl

vars == <<platform, envToken, authToken, phase, pc, tool, args, idx, results,
          successCount, failureCount, opened, log, outcome,
          uCommand, uParams, uUrl>>

callVars == <<pc, tool, args, idx, results, successCount, failureCount,
              opened, log, outcome>>
unitVars == <<uCommand, uParams, uUrl>>
procVars == <<platform, envToken, authToken>>

(***************************************************************************)
(* Bounds of the model.                                                    *)
(***************************************************************************)
MaxChars == 2         \* characters over all keys and values of a unit-level mapping
MaxParams == 2        \* entries of a unit-level mapping
MaxSupplied == 2      \* optional arguments a tool call supplies
MaxItems == 3         \* items of a batch call (besides the over-long batches)
MaxOpenFailures == 1  \* rejections of open() within one call

\* maxItems of the input schemas of the batch tools
MaxItemsAdd == 20
MaxItemsComplete == 50
MaxItemsUpdate == 20

(***************************************************************************)
(* JavaScript values.                                                      *)
(***************************************************************************)
Undefined == [t |-> "undefined"]
Null == [t |-> "null"]
Str(s) == [t |-> "string", s |-> s]
Bool(b) == [t |-> "boolean", b |-> b]
Num(n) == [t |-> "number", n |-> n]
Obj(f) == [t |-> "object", f |-> f]

IsStr(v) == v.t = "string"

\* ToBoolean
Truthy(v) ==
    CASE v.t = "undefined" -> FALSE
      [] v.t = "null" -> FALSE
      [] v.t = "string" -> v.s # <<>>
      [] v.t = "boolean" -> v.b
      [] v.t = "number" -> v.n # 0
      [] OTHER -> TRUE

\* String(value)
ToStr(v) ==
    CASE v.t = "string" -> v.s
      [] v.t = "boolean" -> IF v.b THEN <<"true">> ELSE <<"false">>
      [] v.t = "number" -> <<ToString(v.n)>>
      [] v.t = "undefined" -> <<"undefined">>
      [] v.t = "null" -> <<"null">>
      [] OTHER -> <<"[object Object]">>

WhiteSpace == {" ", "\n", "\t"}

RECURSIVE TrimStart(_)
TrimStart(s) ==
    IF s # <<>> /\ Head(s) \in WhiteSpace THEN TrimStart(Tail(s)) ELSE s

RECURSIVE TrimEnd(_)
TrimEnd(s) ==
    IF s # <<>> /\ s[Len(s)] \in WhiteSpace
    THEN TrimEnd(SubSeq(s, 1, Len(s) - 1))
    ELSE s

\* String.prototype.trim
Trim(s) == TrimEnd(TrimStart(s))

RECURSIVE Join(_, _)
\* Array.prototype.join on an array of strings
Join(parts, sep) ==
    IF parts = <<>> THEN <<>>
    ELSE IF Len(parts) = 1 THEN parts[1]
    ELSE parts[1] \o sep \o Join(Tail(parts), sep)

(***************************************************************************)
(* Percent-encoding.                                                       *)
(***************************************************************************)
\* The characters of the model that encodeURIComponent escapes, with their
\* escapes (UTF-8 byte in upper-case hex).
Escapes ==
    [c \in {" ", "+", "&", "=", "?", "#", "%", "\n", "\t", "/", ":"} |->
        CASE c = " " -> <<"%", "2", "0">>
          [] c = "+" -> <<"%", "2", "B">>
          [] c = "&" -> <<"%", "2", "6">>
          [] c = "=" -> <<"%", "3", "D">>
          [] c = "?" -> <<"%", "3", "F">>
          [] c = "#" -> <<"%", "2", "3">>
          [] c = "%" -> <<"%", "2", "5">>
          [] c = "\n" -> <<"%", "0", "A">>
          [] c = "\t" -> <<"%", "0", "9">>
          [] c = "/" -> <<"%", "2", "F">>
          [] c = ":" -> <<"%", "3", "A">>]

RECURSIVE FormEncode(_)
\* URLSearchParams serialisation (application/x-www-form-urlencoded): as
\* encodeURIComponent on the model's characters, but a space becomes "+".
FormEncode(s) ==
    IF s = <<>> THEN <<>>
    ELSE (IF Head(s) = " " THEN <<"+">>
          ELSE IF Head(s) \in DOMAIN Escapes THEN Escapes[Head(s)]
          ELSE <<Head(s)>>) \o FormEncode(Tail(s))

RECURSIVE EncodeURI(_)
\* encodeURI: leaves the reserved separators ? & = # + / : unescaped.
EncodeURI(s) ==
    IF s = <<>> THEN <<>>
    ELSE (IF Head(s) \in {" ", "%", "\n", "\t"} THEN Escapes[Head(s)]
          ELSE <<Head(s)>>) \o EncodeURI(Tail(s))

RECURSIVE encodeURIComponent(_)
encodeURIComponent(s) ==
    IF s = <<>> THEN <<>>
    ELSE (IF Head(s) \in DOMAIN Escapes THEN Escapes[Head(s)] ELSE <<Head(s)>>)
         \o encodeURIComponent(Tail(s))

\* The character an escape stands for (asked only for an escape of the table).
Unescape(e) == CHOOSE c \in DOMAIN Escapes : Escapes[c] = e

DecodeError == <<"URIError">>

RECURSIVE decodeURIComponent(_)
\* A "%" must start an escape; anything else is copied.  An escape that is
\* malformed makes the whole decoding fail (URIError).
decodeURIComponent(s) ==
    IF s = <<>> THEN <<>>
    ELSE IF Head(s) = "%"
    THEN IF Len(s) >= 3 /\ (\E c \in DOMAIN Escapes : Escapes[c] = SubSeq(s, 1, 3))
         THEN LET rest == decodeURIComponent(SubSeq(s, 4, Len(s)))
              IN IF rest = DecodeError THEN DecodeError
                 ELSE <<Unescape(SubSeq(s, 1, 3))>> \o rest
         ELSE DecodeError
    ELSE LET rest == decodeURIComponent(Tail(s))
         IN IF rest = DecodeError THEN DecodeError ELSE <<Head(s)>> \o rest

(***************************************************************************)
(* The WHATWG URL object, as far as buildUrl uses it.                      *)
(***************************************************************************)
\* new URL(command, 'things:///') for a command that is one path segment:
\* the segment replaces the (empty) last segment of the base path.
NewURL(command) == [path |-> <<"/">> \o command, hasQuery |-> FALSE, query |-> <<>>]

RECURSIVE QueryState(_)
\* The URL parser in query state: ASCII tab and newline are removed from the
\* input, the characters of the query percent-encode set are escaped.
QueryState(s) ==
    IF s = <<>> THEN <<>>
    ELSE (IF Head(s) \in {"\n", "\t"} THEN <<>>
          ELSE IF Head(s) \in {" ", "#"} THEN Escapes[Head(s)]
          ELSE <<Head(s)>>) \o QueryState(Tail(s))

\* url.search = value
SetSearch(url, value) ==
    IF value = <<>> THEN [url EXCEPT !.hasQuery = FALSE, !.query = <<>>]
    ELSE [url EXCEPT !.hasQuery = TRUE,
                     !.query = QueryState(IF Head(value) = "?" THEN Tail(value) ELSE value)]

\* url.toString()
Href(url) ==
    <<"things", ":", "/", "/">> \o url.path
        \o (IF url.hasQuery THEN <<"?">> \o url.query ELSE <<>>)

(***************************************************************************)
(* ThingsClient.buildUrl.  A params object is the sequence of its entries  *)
(* [k, v] in Object.entries order.                                         *)
(***************************************************************************)
\* `${encodeURIComponent(key)}=${encodeURIComponent(String(value))}`
QueryPart(e) == encodeURIComponent(e.k) \o <<"=">> \o encodeURIComponent(ToStr(e.v))

\* One part per entry, whatever its value.
EntryPartsAll(params) == [n \in 1..Len(params) |-> QueryPart(params[n])]

RECURSIVE EntryParts(_)
\* Object.entries(params).forEach: one part per entry whose value is neither
\* undefined nor null.
EntryParts(params) ==
    IF params = <<>> THEN <<>>
    ELSE (IF Head(params).v.t \notin {"undefined", "null"}
          THEN <<QueryPart(Head(params))>> ELSE <<>>) \o EntryParts(Tail(params))

\* The auth-token part pushed for every command, "show" included.
AuthPartAlways(token, command) ==
    IF Truthy(token)
    THEN << <<"auth-token", "=">> \o encodeURIComponent(ToStr(token)) >>
    ELSE <<>>

\* if (this.authToken && command !== 'show') queryParts.push(...)
AuthPart(token, command) ==
    IF Truthy(token) /\ command # <<"show">>
    THEN << <<"auth-token", "=">> \o encodeURIComponent(ToStr(token)) >>
    ELSE <<>>

buildUrl(token, command, params) ==
    LET url == NewURL(command)
        queryParts == AuthPart(token, command) \o EntryParts(params)
    IN  Href(IF Len(queryParts) > 0
             THEN SetSearch(url, <<"?">> \o Join(queryParts, <<"&">>))
             ELSE url)

(***************************************************************************)
(* What a synchronous stretch of code ends in: an exception, or the call   *)
(* executeCommand(command, params).                                        *)
(***************************************************************************)
Throw(m) == [k |-> "throw", msg |-> m]
Exec(cmd, ps) == [k |-> "exec", command |-> cmd, params |-> ps]

\* Property read o[name] of a value that is an object; a missing property
\* and a property of a primitive read as undefined.
Get(o, name) ==
    IF o.t = "object" /\ name \in DOMAIN o.f THEN o.f[name] ELSE Undefined

\* Reading a property of undefined or null throws a TypeError.
NoProps(o) == o.t \in {"undefined", "null"}

\* v.trim() throws a TypeError unless v is a string.
TypeErrorMsg == <<"TypeError">>

\* params.key = value, appended when cond holds (keys are set once each).
Put(params, cond, key, value) ==
    IF cond THEN Append(params, [k |-> <<key>>, v |-> value]) ELSE params

RECURSIVE PutAll(_, _, _)
\* `if (data.f) params.f = data.f` for each f of fields, in order.
PutAll(params, data, fields) ==
    IF fields = <<>> THEN params
    ELSE PutAll(Put(params, Truthy(Get(data, Head(fields))), Head(fields),
                    Get(data, Head(fields))),
                data, Tail(fields))

RECURSIVE PutDefined(_, _, _)
\* `if (data.f !== undefined) params.f = data.f` for each f of fields, in order.
PutDefined(params, data, fields) ==
    IF fields = <<>> THEN params
    ELSE PutDefined(Put(params, Get(data, Head(fields)).t # "undefined",
                        Head(fields), Get(data, Head(fields))),
                    data, Tail(fields))

(***************************************************************************)
(* ThingsClient: the domain operations.                                    *)
(***************************************************************************)
ValidListIds ==
    {"today", "inbox", "upcoming", "anytime", "someday", "projects", "areas", "logbook"}

\* showList passing the list as `query`.
showListAsQuery(id) == Exec(<<"show">>, <<[k |-> <<"query">>, v |-> id]>>)

showList(id) == Exec(<<"show">>, <<[k |-> <<"id">>, v |-> id]>>)

showTodayList == showList(Str(<<"today">>))

TodoFields == <<"notes", "when", "deadline", "tags", "checklist", "list">>

\* addTodo copying every optional field that is not undefined.
addTodoDefined(todoData) ==
    IF ~Truthy(todoData) \/ ~Truthy(Get(todoData, "title"))
    THEN Throw(<<"Todo title is required">>)
    ELSE Exec(<<"add">>,
              PutDefined(<<[k |-> <<"title">>, v |-> Get(todoData, "title")]>>,
                         todoData, TodoFields))

addTodo(todoData) ==
    IF ~Truthy(todoData) \/ ~Truthy(Get(todoData, "title"))
    THEN Throw(<<"Todo title is required">>)
    ELSE Exec(<<"add">>,
              PutAll(<<[k |-> <<"title">>, v |-> Get(todoData, "title")]>>,
                     todoData, TodoFields))

ProjectFields == <<"notes", "when", "deadline", "tags", "area">>

addProject(projectData) ==
    IF ~Truthy(projectData) \/ ~Truthy(Get(projectData, "title"))
    THEN Throw(<<"Project title is required">>)
    ELSE LET p == PutAll(<<[k |-> <<"title">>, v |-> Get(projectData, "title")]>>,
                         projectData, ProjectFields)
             todos == Get(projectData, "todos")
         IN  Exec(<<"add-project">>,
                  Put(p, todos.t = "array", "todos",
                      IF todos.t = "array"
                      THEN Str(Join([n \in 1..Len(todos.a) |-> ToStr(todos.a[n])], <<"\n">>))
                      ELSE Undefined))

search(query) ==
    IF ~Truthy(query) \/ ~IsStr(query) \/ Trim(query.s) = <<>>
    THEN Throw(<<"Search query is required and must be a non-empty string">>)
    ELSE Exec(<<"search">>, <<[k |-> <<"query">>, v |-> Str(Trim(query.s))]>>)

\* The filters searchAdvanced copies under their own name, in order.
FilterFields == <<"status", "type", "area", "project", "tag", "list">>

\* searchAdvanced sending the range as one date-range parameter.
searchAdvancedOneRange(searchParams) ==
    IF ~Truthy(searchParams) \/ ~Truthy(Get(searchParams, "query"))
    THEN Throw(<<"Search query is required for advanced search">>)
    ELSE LET p1 == PutAll(<<[k |-> <<"query">>, v |-> Get(searchParams, "query")]>>,
                          searchParams, FilterFields)
             p2 == Put(p1, Truthy(Get(searchParams, "start_date")), "date-range",
                       Get(searchParams, "start_date"))
         IN  Exec(<<"search">>,
                  Put(p2, Truthy(Get(searchParams, "limit")), "limit",
                      Get(searchParams, "limit")))

searchAdvanced(searchParams) ==
    IF ~Truthy(searchParams) \/ ~Truthy(Get(searchParams, "query"))
    THEN Throw(<<"Search query is required for advanced search">>)
    ELSE LET p1 == PutAll(<<[k |-> <<"query">>, v |-> Get(searchParams, "query")]>>,
                          searchParams, FilterFields)
             p2 == Put(p1, Truthy(Get(searchParams, "start_date")), "start-date",
                       Get(searchParams, "start_date"))
             p3 == Put(p2, Truthy(Get(searchParams, "end_date")), "end-date",
                       Get(searchParams, "end_date"))
         IN  Exec(<<"search">>,
                  Put(p3, Truthy(Get(searchParams, "limit")), "limit",
                      Get(searchParams, "limit")))

\* updateTodo adding a field only when it is truthy, as addTodo does.
updateTodoTruthy(updateData) ==
    IF ~Truthy(updateData) \/ ~Truthy(Get(updateData, "id"))
    THEN Throw(<<"Todo ID is required for updates">>)
    ELSE Exec(<<"update">>,
              PutAll(<<[k |-> <<"id">>, v |-> Get(updateData, "id")]>>, updateData,
                     <<"title", "notes", "when", "deadline", "tags", "checklist", "list">>))

updateTodo(updateData) ==
    IF ~Truthy(updateData) \/ ~Truthy(Get(updateData, "id"))
    THEN Throw(<<"Todo ID is required for updates">>)
    ELSE Exec(<<"update">>,
              PutDefined(<<[k |-> <<"id">>, v |-> Get(updateData, "id")]>>, updateData,
                         <<"title", "notes", "when", "deadline", "tags", "checklist", "list">>))

updateProject(updateData) ==
    IF ~Truthy(updateData) \/ ~Truthy(Get(updateData, "id"))
    THEN Throw(<<"Project ID is required for updates">>)
    ELSE Exec(<<"update">>,
              PutDefined(<<[k |-> <<"id">>, v |-> Get(updateData, "id")]>>, updateData,
                         <<"title", "notes", "when", "deadline", "tags", "area">>))

\* completeTodo sending the id alone.
completeTodoNoFlag(completeData) ==
    IF ~Truthy(completeData) \/ ~Truthy(Get(completeData, "id"))
    THEN Throw(<<"Todo ID is required for completion">>)
    ELSE Exec(<<"update">>, <<[k |-> <<"id">>, v |-> Get(completeData, "id")]>>)

completeTodo(completeData) ==
    IF ~Truthy(completeData) \/ ~Truthy(Get(completeData, "id"))
    THEN Throw(<<"Todo ID is required for completion">>)
    ELSE Exec(<<"update">>, <<[k |-> <<"id">>, v |-> Get(completeData, "id")],
                              [k |-> <<"completed">>, v |-> Bool(TRUE)]>>)

(***************************************************************************)
(* Tool handlers: the synchronous stretch from the start of a handler to   *)
(* its first await.  a is the arguments object (args || {}), a record of   *)
(* JavaScript values with undefined for an absent argument.                *)
(***************************************************************************)
Unavailable == <<"Things app is not available. Make sure you're running on macOS and Things is installed.">>

\* thingsClient.isThingsAvailable()
isThingsAvailable(plat) == plat = "darwin"

\* `v && v.trim()` as a condition, for a v that is a string when truthy
NonBlank(v) == Truthy(v) /\ IsStr(v) /\ Trim(v.s) # <<>>

\* a truthy v on which v.trim() is not a function
TrimThrows(v) == Truthy(v) /\ ~IsStr(v)

\* `if (v && v.trim()) data.f = v.trim()`
Trimmed(v) == IF NonBlank(v) THEN Str(Trim(v.s)) ELSE Undefined

\* `if (v) data.f = v`
IfTruthy(v) == IF Truthy(v) THEN v ELSE Undefined

\* `!v || v.trim() === ''` followed by throw new Error(msg); rest otherwise
RequireNonBlank(v, msg, rest) ==
    IF ~Truthy(v) THEN Throw(msg)
    ELSE IF ~IsStr(v) THEN Throw(TypeErrorMsg)
    ELSE IF Trim(v.s) = <<>> THEN Throw(msg)
    ELSE rest

NavTools ==
    [show_today_list |-> "today", show_inbox |-> "inbox", show_upcoming |-> "upcoming",
     show_anytime |-> "anytime", show_someday |-> "someday", show_projects |-> "projects",
     show_areas |-> "areas", show_logbook |-> "logbook"]

show_handler(name, plat) ==
    IF ~isThingsAvailable(plat) THEN Throw(Unavailable)
    ELSE IF name = "show_today_list" THEN showTodayList
    ELSE showList(Str(<<NavTools[name]>>))

add_todo_data(a) ==
    Obj([title |-> Str(Trim(a.title.s)), notes |-> Trimmed(a.notes),
         when |-> IfTruthy(a.when), deadline |-> IfTruthy(a.deadline),
         tags |-> Trimmed(a.tags), checklist |-> Trimmed(a.checklist),
         list |-> Trimmed(a.list)])

add_todo(plat, env, a) ==
    IF ~isThingsAvailable(plat) THEN Throw(Unavailable)
    ELSE RequireNonBlank(a.title, <<"Todo title is required and cannot be empty">>,
         IF \E f \in {"notes", "tags", "checklist", "list"} : TrimThrows(a[f])
         THEN Throw(TypeErrorMsg)
         ELSE addTodo(add_todo_data(a)))

\* args.todos.filter(todo => todo && todo.trim()).map(todo => todo.trim())
\* The todos array passed on as it is.
FilterTodosKeepAll(todos) == todos

FilterTodos(todos) ==
    IF todos.t = "array"
    THEN [t |-> "array",
          a |-> LET keep == SelectSeq(todos.a, NonBlank)
                IN  [n \in 1..Len(keep) |-> Str(Trim(keep[n].s))]]
    ELSE Undefined

add_project_data(a) ==
    Obj([title |-> Str(Trim(a.title.s)), notes |-> Trimmed(a.notes),
         when |-> IfTruthy(a.when), deadline |-> IfTruthy(a.deadline),
         tags |-> Trimmed(a.tags), area |-> Trimmed(a.area),
         todos |-> FilterTodos(a.todos)])

add_project(plat, env, a) ==
    IF ~isThingsAvailable(plat) THEN Throw(Unavailable)
    ELSE RequireNonBlank(a.title, <<"Project title is required and cannot be empty">>,
         IF (\E f \in {"notes", "tags", "area"} : TrimThrows(a[f]))
            \/ (a.todos.t = "array" /\ \E n \in 1..Len(a.todos.a) : TrimThrows(a.todos.a[n]))
         THEN Throw(TypeErrorMsg)
         ELSE addProject(add_project_data(a)))

search_handler(plat, a) ==
    IF ~isThingsAvailable(plat) THEN Throw(Unavailable)
    ELSE IF ~Truthy(a.query) \/ ~IsStr(a.query) \/ Trim(a.query.s) = <<>>
    THEN Throw(<<"Search query is required and must be a non-empty string">>)
    ELSE search(Str(Trim(a.query.s)))

\* The searchParams object the search_advanced handler builds.
search_advanced_params(a) ==
    LET filter == IF Truthy(a.filter) THEN a.filter ELSE Undefined
        range == IF Truthy(Get(filter, "date_range")) THEN Get(filter, "date_range")
                 ELSE Undefined
    IN  Obj([query |-> Str(Trim(a.query.s)),
             status |-> IfTruthy(Get(filter, "status")),
             type |-> IfTruthy(Get(filter, "type")),
             area |-> IfTruthy(Get(filter, "area")),
             project |-> IfTruthy(Get(filter, "project")),
             tag |-> IfTruthy(Get(filter, "tag")),
             list |-> IfTruthy(Get(filter, "list")),
             start_date |-> IfTruthy(Get(range, "start")),
             end_date |-> IfTruthy(Get(range, "end")),
             limit |-> IfTruthy(a.limit)])

search_advanced(plat, a) ==
    IF ~isThingsAvailable(plat) THEN Throw(Unavailable)
    ELSE RequireNonBlank(a.query, <<"Search query is required and cannot be empty">>,
                         searchAdvanced(search_advanced_params(a)))

TokenRequired == <<"THINGS_AUTHENTICATION_TOKEN is required">>

\* update_todo copying every argument that is not undefined, as it is.
update_todo_data_all(a) ==
    Obj([id |-> Str(Trim(a.id.s)), title |-> a.title, notes |-> a.notes,
         when |-> a.when, deadline |-> a.deadline, tags |-> a.tags,
         checklist |-> a.checklist, list |-> a.list])

update_todo_data(a) ==
    Obj([id |-> Str(Trim(a.id.s)), title |-> Trimmed(a.title), notes |-> a.notes,
         when |-> IfTruthy(a.when), deadline |-> a.deadline, tags |-> a.tags,
         checklist |-> a.checklist, list |-> Trimmed(a.list)])

\* update_todo without `if (!process.env.THINGS_AUTHENTICATION_TOKEN) throw`.
update_todo_unchecked(plat, env, a) ==
    IF ~isThingsAvailable(plat) THEN Throw(Unavailable)
    ELSE RequireNonBlank(a.id, <<"Todo ID is required and cannot be empty">>,
         IF \E f \in {"title", "list"} : TrimThrows(a[f]) THEN Throw(TypeErrorMsg)
         ELSE updateTodo(update_todo_data(a)))

update_todo(plat, env, a) ==
    IF ~isThingsAvailable(plat) THEN Throw(Unavailable)
    ELSE RequireNonBlank(a.id, <<"Todo ID is required and cannot be empty">>,
         IF ~Truthy(env) THEN Throw(TokenRequired)
         ELSE IF \E f \in {"title", "list"} : TrimThrows(a[f]) THEN Throw(TypeErrorMsg)
         ELSE updateTodo(update_todo_data(a)))

update_project_data(a) ==
    Obj([id |-> Str(Trim(a.id.s)), title |-> Trimmed(a.title), notes |-> a.notes,
         when |-> IfTruthy(a.when), deadline |-> a.deadline, tags |-> a.tags,
         area |-> Trimmed(a.area)])

update_project(plat, env, a) ==
    IF ~isThingsAvailable(plat) THEN Throw(Unavailable)
    ELSE RequireNonBlank(a.id, <<"Project ID is required and cannot be empty">>,
         IF ~Truthy(env) THEN Throw(TokenRequired)
         ELSE IF \E f \in {"title", "area"} : TrimThrows(a[f]) THEN Throw(TypeErrorMsg)
         ELSE updateProject(update_project_data(a)))

complete_todo(plat, env, a) ==
    IF ~isThingsAvailable(plat) THEN Throw(Unavailable)
    ELSE RequireNonBlank(a.id, <<"Todo ID is required and cannot be empty">>,
         IF ~Truthy(env) THEN Throw(TokenRequired)
         ELSE completeTodo(Obj([id |-> Str(Trim(a.id.s))])))

(***************************************************************************)
(* Batch handlers.  Loop(n) stands for reaching the for loop over n items. *)
(***************************************************************************)
Loop(n) == [k |-> "loop", n |-> n]

\* `!v || !Array.isArray(v) || v.length === 0`
NoItems(v) == ~Truthy(v) \/ v.t # "array" \/ Len(v.a) = 0

batch_add_todos(plat, env, a) ==
    IF ~isThingsAvailable(plat) THEN Throw(Unavailable)
    ELSE IF NoItems(a.todos)
    THEN Throw(<<"Todos array is required and must contain at least one item">>)
    ELSE IF ~Truthy(env) THEN Throw(TokenRequired)
    ELSE Loop(Len(a.todos.a))

batch_complete_todos(plat, env, a) ==
    IF ~isThingsAvailable(plat) THEN Throw(Unavailable)
    ELSE IF NoItems(a.ids)
    THEN Throw(<<"IDs array is required and must contain at least one item">>)
    ELSE IF ~Truthy(env) THEN Throw(TokenRequired)
    ELSE Loop(Len(a.ids.a))

\* Object.keys(args.updates).filter(key => args.updates[key] !== undefined)
updateKeys(updates) == {f \in DOMAIN updates.f : updates.f[f].t # "undefined"}

batch_update_todos(plat, env, a) ==
    IF ~isThingsAvailable(plat) THEN Throw(Unavailable)
    ELSE IF NoItems(a.ids)
    THEN Throw(<<"IDs array is required and must contain at least one item">>)
    ELSE IF ~Truthy(a.updates) \/ a.updates.t # "object"
    THEN Throw(<<"Updates object is required">>)
    ELSE IF updateKeys(a.updates) = {}
    THEN Throw(<<"At least one update field must be provided">>)
    ELSE IF ~Truthy(env) THEN Throw(TokenRequired)
    ELSE Loop(Len(a.ids.a))

\* The try block of one iteration of batch_add_todos, for todo = args.todos[i]
\* (n = i + 1).
batch_add_item(todo, n) ==
    IF NoProps(todo) THEN Throw(TypeErrorMsg)
    ELSE RequireNonBlank(Get(todo, "title"),
                         <<"Todo ", ToString(n), ": Title is required">>,
         IF \E f \in {"notes", "tags", "list"} : TrimThrows(Get(todo, f))
         THEN Throw(TypeErrorMsg)
         ELSE addTodo(Obj([title |-> Str(Trim(Get(todo, "title").s)),
                           notes |-> Trimmed(Get(todo, "notes")),
                           when |-> IfTruthy(Get(todo, "when")),
                           deadline |-> IfTruthy(Get(todo, "deadline")),
                           tags |-> Trimmed(Get(todo, "tags")),
                           list |-> Trimmed(Get(todo, "list"))])))

batch_complete_item(id, n) ==
    RequireNonBlank(id, <<"ID ", ToString(n), ": ID cannot be empty">>,
                    completeTodo(Obj([id |-> Str(Trim(id.s))])))

batch_update_item(id, updates, n) ==
    RequireNonBlank(id, <<"ID ", ToString(n), ": ID cannot be empty">>,
                    updateTodo(Obj([id |-> Str(Trim(id.s)),
                                    title |-> Get(updates, "title"),
                                    notes |-> Get(updates, "notes"),
                                    when |-> Get(updates, "when"),
                                    deadline |-> Get(updates, "deadline"),
                                    tags |-> Get(updates, "tags"),
                                    list |-> Get(updates, "list")])))

BatchTools == {"batch_add_todos", "batch_complete_todos", "batch_update_todos"}

\* args.todos or args.ids
Items(name, a) == IF name = "batch_add_todos" THEN a.todos.a ELSE a.ids.a

\* The try block of iteration i (0-based) of a batch handler.
BatchItem(name, a, i) ==
    CASE name = "batch_add_todos" -> batch_add_item(a.todos.a[i + 1], i + 1)
      [] name = "batch_complete_todos" -> batch_complete_item(a.ids.a[i + 1], i + 1)
      [] name = "batch_update_todos" -> batch_update_item(a.ids.a[i + 1], a.updates, i + 1)

\* The catch block of an iteration evaluates `todo.title || 'Unknown'` (add)
\* or `id || 'Unknown'`; the first throws again when todo is null or undefined.
CatchAlwaysThrows(name, a, i) == TRUE

CatchThrows(name, a, i) == name = "batch_add_todos" /\ NoProps(a.todos.a[i + 1])

OrUnknown(v) == IF Truthy(v) THEN ToStr(v) ELSE <<"Unknown">>

CatchLabel(name, a, i) ==
    IF name = "batch_add_todos" THEN OrUnknown(Get(a.todos.a[i + 1], "title"))
    ELSE OrUnknown(a.ids.a[i + 1])

\* The label of a success line: todoData.title, completeData.id, updateData.id.
DoneLabel(name, a, i) ==
    IF name = "batch_add_todos" THEN Trim(Get(a.todos.a[i + 1], "title").s)
    ELSE Trim(a.ids.a[i + 1].s)

DoneWord(name) ==
    CASE name = "batch_add_todos" -> <<"\" - Created successfully">>
      [] name = "batch_complete_todos" -> <<"\" - Marked as completed">>
      [] name = "batch_update_todos" -> <<"\" - Updated successfully">>

\* "OK" and "FAIL" stand for the check mark and the cross of the source.
SuccessLine(name, a, i) ==
    <<"OK", " Todo ", ToString(i + 1), ": \"">> \o DoneLabel(name, a, i) \o DoneWord(name)

\* The failure line numbered by the loop index instead of the position.
FailureLineOffByOne(name, a, i, msg) ==
    <<"FAIL", " Todo ", ToString(i), ": \"">> \o CatchLabel(name, a, i)
        \o <<"\" - Error: ">> \o msg

FailureLine(name, a, i, msg) ==
    <<"FAIL", " Todo ", ToString(i + 1), ": \"">> \o CatchLabel(name, a, i)
        \o <<"\" - Error: ">> \o msg

SummaryWord(name) ==
    CASE name = "batch_add_todos" -> "Batch add todos completed: "
      [] name = "batch_complete_todos" -> "Batch complete todos finished: "
      [] name = "batch_update_todos" -> "Batch update todos completed: "

\* `${key}: ${value}` of the defined entries of args.updates, joined by ", "
appliedUpdates(updates) ==
    LET order == <<"title", "notes", "when", "deadline", "tags", "list", "area">>
        keys == SelectSeq(order, LAMBDA f : f \in updateKeys(updates))
    IN  Join([n \in 1..Len(keys) |-> <<keys[n], ": ">> \o ToStr(updates.f[keys[n]])],
             <<", ">>)

\* The report a batch handler returns after its loop.
Report(name, a, sc, fc, res) ==
    <<SummaryWord(name), ToString(sc), " successful, ", ToString(fc), " failed">>
        \o (IF name = "batch_update_todos"
            THEN <<"\n\nApplied Updates: ">> \o appliedUpdates(a.updates)
            ELSE <<>>)
        \o <<"\n\nDetailed Results:\n">> \o Join(res, <<"\n">>)

(***************************************************************************)
(* Messages and the call_tool layer (index.js).                            *)
(***************************************************************************)
ShowNames == DOMAIN NavTools

SingleTools ==
    ShowNames \cup {"add_todo", "add_project", "search", "update_todo", "update_project",
                    "complete_todo", "search_advanced"}

\* this.tools after main() has registered the tool groups
RegisteredTools == SingleTools \cup BatchTools

\* The client methods that the example scripts call directly.
ClientMethods ==
    {"client.showList", "client.addTodo", "client.addProject", "client.search",
     "client.updateTodo", "client.updateProject", "client.completeTodo"}

\* The handler of a single-operation tool, up to its first await.
Handler(name, plat, env, a) ==
    CASE name \in ShowNames -> show_handler(name, plat)
      [] name = "add_todo" -> add_todo(plat, env, a)
      [] name = "add_project" -> add_project(plat, env, a)
      [] name = "search" -> search_handler(plat, a)
      [] name = "search_advanced" -> search_advanced(plat, a)
      [] name = "update_todo" -> update_todo(plat, env, a)
      [] name = "update_project" -> update_project(plat, env, a)
      [] name = "complete_todo" -> complete_todo(plat, env, a)
      [] name = "batch_add_todos" -> batch_add_todos(plat, env, a)
      [] name = "batch_complete_todos" -> batch_complete_todos(plat, env, a)
      [] name = "batch_update_todos" -> batch_update_todos(plat, env, a)
      [] name = "client.showList" -> showList(a)
      [] name = "client.addTodo" -> addTodo(a)
      [] name = "client.addProject" -> addProject(a)
      [] name = "client.search" -> search(a)
      [] name = "client.updateTodo" -> updateTodo(a)
      [] name = "client.updateProject" -> updateProject(a)
      [] name = "client.completeTodo" -> completeTodo(a)

\* console.warn of add_todo and add_project when the variable is not set
TokenWarning(name, plat, env, a) ==
    IF name \in {"add_todo", "add_project"} /\ ~Truthy(env) /\ isThingsAvailable(plat)
       /\ Truthy(a.title) /\ IsStr(a.title) /\ Trim(a.title.s) # <<>>
    THEN << <<"Warning: THINGS_AUTHENTICATION_TOKEN not set. Add operations may fail without authentication.">> >>
    ELSE <<>>

\* The names of the lists in the messages of the navigation tools.
ListTitles ==
    [show_today_list |-> "Today list", show_inbox |-> "Inbox",
     show_upcoming |-> "Upcoming", show_anytime |-> "Anytime",
     show_someday |-> "Someday", show_projects |-> "Projects",
     show_areas |-> "Areas", show_logbook |-> "Logbook"]

\* `Failed to ...: ` of the catch block of a handler
ErrorContext(name) ==
    CASE name \in ShowNames -> <<"Failed to show ", ListTitles[name], ": ">>
      [] name = "add_todo" -> <<"Failed to add to-do: ">>
      [] name = "add_project" -> <<"Failed to add project: ">>
      [] name = "search" -> <<"Failed to search: ">>
      [] name = "search_advanced" -> <<"Failed to perform advanced search: ">>
      [] name = "update_todo" -> <<"Failed to update to-do: ">>
      [] name = "update_project" -> <<"Failed to update project: ">>
      [] name = "complete_todo" -> <<"Failed to complete to-do: ">>
      [] name = "batch_add_todos" -> <<"Failed to batch add todos: ">>
      [] name = "batch_complete_todos" -> <<"Failed to batch complete todos: ">>
      [] name = "batch_update_todos" -> <<"Failed to batch update todos: ">>
      [] OTHER -> <<>>

\* The string a single-operation handler returns when its operation returned true.
SuccessText(name, a) ==
    CASE name \in ShowNames ->
            <<"Successfully opened Things app and navigated to ", ListTitles[name]>>
      [] name = "add_todo" ->
            <<"Successfully created to-do: \"">> \o Trim(a.title.s) \o <<"\"">>
      [] name = "add_project" ->
            <<"Successfully created project: \"">> \o Trim(a.title.s) \o <<"\"">>
              \o (LET todos == FilterTodos(a.todos)
                  IN  IF todos.t = "array" /\ Len(todos.a) > 0
                      THEN <<" with ", ToString(Len(todos.a)), " initial to-do(s)">>
                      ELSE <<>>)
      [] name = "search" ->
            <<"Successfully performed search for: \"">> \o Trim(a.query.s)
              \o <<"\". Things app is now showing search results.">>
      [] name = "search_advanced" ->
            LET sp == search_advanced_params(a)
                applied == SelectSeq(FilterFields \o <<"start_date", "end_date">>,
                                     LAMBDA f : sp.f[f] # Undefined)
            IN  <<"Successfully executed advanced search for: \"">> \o sp.f.query.s \o <<"\"">>
                  \o (IF Len(applied) > 0
                      THEN <<"\nApplied filters: ">> \o Join([n \in 1..Len(applied) |-> <<applied[n]>>], <<", ">>)
                      ELSE <<>>)
                  \o (IF Truthy(a.limit) THEN <<"\nResult limit: ">> \o ToStr(a.limit) ELSE <<>>)
      [] name = "update_todo" ->
            <<"Successfully updated to-do with ID: \"">> \o Trim(a.id.s) \o <<"\"">>
      [] name = "update_project" ->
            <<"Successfully updated project with ID: \"">> \o Trim(a.id.s) \o <<"\"">>
      [] name = "complete_todo" ->
            <<"Successfully marked to-do as completed: \"">> \o Trim(a.id.s) \o <<"\"">>

\* The message a single-operation handler throws in the else branch of
\* `if (success)`.
NotDone(name) ==
    CASE name \in ShowNames -> <<"Failed to open ", ListTitles[name], " in Things app">>
      [] name = "add_todo" -> <<"Failed to create to-do in Things app">>
      [] name = "add_project" -> <<"Failed to create project in Things app">>
      [] name = "search" -> <<"Failed to perform search in Things app">>
      [] name = "search_advanced" -> <<"Failed to execute advanced search in Things app">>
      [] name = "update_todo" -> <<"Failed to update to-do in Things app">>
      [] name = "update_project" -> <<"Failed to update project in Things app">>
      [] name = "complete_todo" -> <<"Failed to complete to-do in Things app">>

\* The line a batch handler pushes in the else branch of `if (success)`.
UndoneLine(name, a, i) ==
    <<"FAIL", " Todo ", ToString(i + 1), ": \"">> \o DoneLabel(name, a, i)
        \o (CASE name = "batch_add_todos" -> <<"\" - Failed to create">>
              [] name = "batch_complete_todos" -> <<"\" - Failed to complete">>
              [] name = "batch_update_todos" -> <<"\" - Failed to update">>)

\* executeCommand returning false.
executeCommandReturnsFalse == FALSE

\* What executeCommand returns after open() has resolved: `return true`.
executeCommandReturns == TRUE

\* What the CallToolRequestSchema handler answers: a text content ...
TextResult(text) == [kind |-> "result", text |-> text]
\* ... or an McpError.
McpError(code, msg) == [kind |-> "error", code |-> code, msg |-> msg]
\* A direct call of a client method returns true or throws.
Returned == [kind |-> "returned", value |-> executeCommandReturns]
Threw(msg) == [kind |-> "threw", msg |-> msg]
NoOutcome == [kind |-> "none"]

\* A handler's exception answered as a text content.
FailedAsText(name, msg) == TextResult(ErrorContext(name) \o msg)

\* The answer to a handler (or client method) that threw msg.
Failed(name, msg) ==
    IF name \in ClientMethods THEN Threw(msg)
    ELSE McpError("InternalError", <<"Tool execution failed: ">> \o ErrorContext(name) \o msg)

\* console.error(errorMessage) of the catch block of a handler
HandlerErrorLog(name, msg) ==
    IF name \in ClientMethods THEN <<>> ELSE <<ErrorContext(name) \o msg>>

\* The message of the error with which open() rejects.
OsError == <<"spawn open ENOENT">>

\* executeCommand's catch: the message it throws ...
ExecFailed(msg) == <<"Things command execution failed: ">> \o msg
\* ... and the line it logs.
ExecFailedLog(msg) == <<"Failed to execute Things command: ">> \o msg

\* executeCommand's console.error of the URL it is about to open
ExecLog(url) == <<"Executing Things command: ">> \o url

(***************************************************************************)
(* Inputs.                                                                 *)
(***************************************************************************)
Calls == {"c1", "c2"}

Arr(a) == [t |-> "array", a |-> a]

EnvVals == {Undefined, Str(<<>>), Str(<<"tok", "+", "en">>)}

\* Values of a required string argument (title, id, query).
RequiredVals == {Undefined, Str(<<" ">>), Str(<<"Temp", " ", "Add", " ", "From", " ", "MCP", " ">>)}

\* Values of an optional argument that is supplied.
OptVals(f) ==
    CASE f = "when" -> {Str(<<>>), Str(<<"today">>), Str(<<"bogus">>)}
      [] f = "todos" -> {Arr(<<>>), Arr(<<Str(<<" ">>)>>),
                         Arr(<<Str(<<"Create", " ", "wireframes">>),
                               Str(<<"Design", " ", "mockups">>)>>),
                         Arr(<<Str(<<"Create", " ", "wireframes">>), Str(<<>>),
                               Str(<<" ", "Design", " ", "mockups">>)>>)}
      [] OTHER -> {Str(<<>>), Str(<<" ">>), Str(<<" ", "x", "&", "y">>)}

\* Objects over fields with at most MaxSupplied of them supplied.
OptionalArgs(fields) ==
    UNION {{[f \in fields |-> IF f \in S THEN v[f] ELSE Undefined] :
                v \in {w \in [S -> UNION {OptVals(f) : f \in S}] :
                            \A f \in S : w[f] \in OptVals(f)}} :
           S \in {T \in SUBSET fields : Cardinality(T) <= MaxSupplied}}

WithRequired(req, rest) ==
    {[f \in DOMAIN r \cup {req} |-> IF f = req THEN v ELSE r[f]] :
        v \in RequiredVals, r \in rest}

SeqsUpTo(n, S) == UNION {[1..m -> S] : m \in 1..n}

TodoItemVals ==
    {Null, Str(<<"x">>), Obj([title |-> Str(<<>>)]), Obj([title |-> Str(<<" ">>)]),
     Obj([title |-> Num(5)]),
     Obj([title |-> Str(<<" ", "Buy", " ", "milk">>), notes |-> Str(<<"2", "%">>)])}

IdVals == {Null, Str(<<" ">>), Num(7), Str(<<" ", "id", "=", "1">>)}

UpdatesVals ==
    {Undefined, Obj([notes |-> Undefined]), Obj([notes |-> Str(<<>>)]),
     Obj([area |-> Str(<<"Work">>)])}

ValidTodo == Obj([title |-> Str(<<"T">>)])
ValidId == Str(<<"id">>)

\* An array of n copies of v.
Uniform(n, v) == Arr([m \in 1..n |-> v])

\* Values of the filter argument of search_advanced.
FilterVals ==
    {Undefined,
     Obj([date_range |-> Obj([start |-> Str(<<"2024-01-01">>),
                              end |-> Str(<<"2024-12-31">>)])]),
     Obj([status |-> Str(<<"open">>), tag |-> Str(<<>>),
          date_range |-> Obj([start |-> Str(<<"2024-01-01">>)])]),
     Obj([status |-> Str(<<"open">>), type |-> Str(<<"todos">>), area |-> Str(<<"Work">>),
          project |-> Str(<<"Q1", " ", "Plan">>), tag |-> Str(<<"urgent">>),
          list |-> Str(<<"today">>)])}

ToolArgs(name) ==
    CASE name = "add_todo" ->
            WithRequired("title", OptionalArgs({"notes", "when", "deadline", "tags",
                                                "checklist", "list"}))
      [] name = "add_project" ->
            WithRequired("title", OptionalArgs({"notes", "when", "deadline", "tags",
                                                "area", "todos"}))
      [] name = "search" -> {[query |-> v] : v \in RequiredVals}
      [] name = "search_advanced" ->
            {[query |-> q, filter |-> f, limit |-> l] :
                q \in {Undefined, Str(<<"deadline">>)}, f \in FilterVals,
                l \in {Undefined, Num(0), Num(10)}}
      [] name = "update_todo" ->
            WithRequired("id", OptionalArgs({"title", "notes", "when", "deadline",
                                             "tags", "checklist", "list"}))
      [] name = "update_project" ->
            WithRequired("id", OptionalArgs({"title", "notes", "when", "deadline",
                                             "tags", "area"}))
      [] name = "complete_todo" -> {[id |-> v] : v \in RequiredVals}
      [] name = "batch_add_todos" ->
            {[todos |-> v] :
                v \in {Undefined, Arr(<<>>), Uniform(MaxItemsAdd + 1, ValidTodo)}
                      \cup {Arr(x) : x \in SeqsUpTo(MaxItems, TodoItemVals)}}
      [] name = "batch_complete_todos" ->
            {[ids |-> v] :
                v \in {Undefined, Arr(<<>>), Uniform(MaxItemsComplete + 1, ValidId)}
                      \cup {Arr(x) : x \in SeqsUpTo(MaxItems, IdVals)}}
      [] name = "batch_update_todos" ->
            {[ids |-> v, updates |-> u] :
                v \in {Undefined, Arr(<<>>), Uniform(MaxItemsUpdate + 1, ValidId)}
                      \cup {Arr(x) : x \in SeqsUpTo(MaxItems, IdVals)},
                u \in UpdatesVals}
      [] name = "client.showList" ->
            {Undefined, Str(<<>>), Str(<<"today">>), Str(<<"bogus">>)}
      [] name = "client.addTodo" ->
            {Undefined} \cup {Obj(r) : r \in WithRequired("title",
                                  OptionalArgs({"notes", "when", "deadline", "tags",
                                                "checklist", "list"}))}
      [] name = "client.addProject" ->
            {Undefined, Obj([title |-> Str(<<>>)]),
             Obj([title |-> Str(<<"Website", " ", "Redesign">>),
                  todos |-> Arr(<<Str(<<"Create", " ", "wireframes">>),
                                  Str(<<"Design", " ", "mockups">>)>>)])}
      [] name = "client.search" -> {Undefined, Num(7), Str(<<" ">>), Str(<<"a", "&", "b">>)}
      [] name \in {"client.updateTodo", "client.updateProject", "client.completeTodo"} ->
            {Undefined, Obj([notes |-> Str(<<>>)]),
             Obj([id |-> ValidId, notes |-> Str(<<>>)]),
             Obj([id |-> ValidId, title |-> Str(<<"New", " ", "title">>)]),
             Obj([id |-> ValidId, notes |-> Null, tags |-> Str(<<"a", ",", "b">>)])}
      [] OTHER -> {<<>>}

(***************************************************************************)
(* The server as a state machine.                                          *)
(***************************************************************************)
Init ==
    /\ platform \in {"darwin", "linux"}
    /\ envToken \in EnvVals
    /\ authToken = Undefined
    /\ phase = "boot"
    /\ pc = [c \in Calls |-> "idle"]
    /\ tool = [c \in Calls |-> ""]
    /\ args = [c \in Calls |-> <<>>]
    /\ idx = [c \in Calls |-> 0]
    /\ results = [c \in Calls |-> <<>>]
    /\ successCount = [c \in Calls |-> 0]
    /\ failureCount = [c \in Calls |-> 0]
    /\ opened = [c \in Calls |-> <<>>]
    /\ log = [c \in Calls |-> <<>>]
    /\ outcome = [c \in Calls |-> NoOutcome]
    /\ uCommand = <<>>
    /\ uParams = <<>>
    /\ uUrl = [done |-> FALSE, url |-> <<>>]

\* main(): new ThingsMCPServer() constructs the client, which reads the
\* credential and throws off macOS; main then registers the tools and starts.
Construct ==
    /\ phase = "boot"
    /\ authToken' = envToken
    /\ phase' = IF platform # "darwin" THEN "exited" ELSE "serving"
    /\ UNCHANGED <<platform, envToken, callVars, unitVars>>

\* Advance with results, successCount and failureCount kept in one place for
\* all calls instead of in the locals of each handler invocation.
AdvanceShared(c, res, sc, fc) ==
    LET n == Len(Items(tool[c], args[c]))
    IN  /\ results' = [d \in Calls |-> res]
        /\ successCount' = [d \in Calls |-> sc]
        /\ failureCount' = [d \in Calls |-> fc]
        /\ idx' = [idx EXCEPT ![c] = @ + 1]
        /\ IF idx[c] + 1 < n
           THEN /\ pc' = [pc EXCEPT ![c] = "loop"]
                /\ UNCHANGED outcome
           ELSE /\ pc' = [pc EXCEPT ![c] = "done"]
                /\ outcome' = [outcome EXCEPT
                       ![c] = TextResult(Report(tool[c], args[c], sc, fc, res))]

\* The rest of a batch handler once iteration i is over without a delay:
\* the next iteration, or the report after the last one.
Advance(c, res, sc, fc) ==
    LET n == Len(Items(tool[c], args[c]))
    IN  /\ results' = [results EXCEPT ![c] = res]
        /\ successCount' = [successCount EXCEPT ![c] = sc]
        /\ failureCount' = [failureCount EXCEPT ![c] = fc]
        /\ idx' = [idx EXCEPT ![c] = @ + 1]
        /\ IF idx[c] + 1 < n
           THEN /\ pc' = [pc EXCEPT ![c] = "loop"]
                /\ UNCHANGED outcome
           ELSE /\ pc' = [pc EXCEPT ![c] = "done"]
                /\ outcome' = [outcome EXCEPT
                       ![c] = TextResult(Report(tool[c], args[c], sc, fc, res))]

\* A request arrives (or a script calls a client method) and runs up to the
\* first await of its handler.
Start(c, name, a) ==
    /\ phase = "serving" /\ pc[c] = "idle"
    /\ tool' = [tool EXCEPT ![c] = name]
    /\ args' = [args EXCEPT ![c] = a]
    /\ IF name \notin RegisteredTools \cup ClientMethods
       THEN /\ outcome' = [outcome EXCEPT
                   ![c] = McpError("MethodNotFound", <<"Unknown tool: ", name>>)]
            /\ pc' = [pc EXCEPT ![c] = "done"]
            /\ UNCHANGED <<idx, results, successCount, failureCount, opened, log>>
       ELSE LET r == Handler(name, platform, envToken, a)
                w == TokenWarning(name, platform, envToken, a)
            IN  CASE r.k = "throw" ->
                        /\ log' = [log EXCEPT ![c] = w \o HandlerErrorLog(name, r.msg)]
                        /\ outcome' = [outcome EXCEPT ![c] = Failed(name, r.msg)]
                        /\ pc' = [pc EXCEPT ![c] = "done"]
                        /\ UNCHANGED <<idx, results, successCount, failureCount, opened>>
                  [] r.k = "exec" ->
                        LET url == buildUrl(authToken, r.command, r.params)
                        IN  /\ log' = [log EXCEPT ![c] = w \o <<ExecLog(url)>>]
                            /\ opened' = [opened EXCEPT ![c] = <<url>>]
                            /\ pc' = [pc EXCEPT ![c] = "open"]
                            /\ UNCHANGED <<idx, results, successCount, failureCount,
                                           outcome>>
                  [] r.k = "loop" ->
                        /\ pc' = [pc EXCEPT ![c] = "loop"]
                        /\ UNCHANGED <<idx, results, successCount, failureCount,
                                       opened, log, outcome>>
    /\ UNCHANGED <<procVars, phase, unitVars>>

\* A call_tool request with any tool name and arguments.
CallTool(c) ==
    /\ phase = "serving" /\ pc[c] = "idle"
    /\ \E name \in RegisteredTools \cup {"no_such_tool"} :
           \E a \in ToolArgs(name) : Start(c, name, a)

\* A script calls a method of the client directly.
ClientCall(c) ==
    /\ phase = "serving" /\ pc[c] = "idle"
    /\ \E name \in ClientMethods : \E a \in ToolArgs(name) : Start(c, name, a)

\* One iteration of a batch loop, up to its await of the client method or,
\* when the item fails before that, through its catch block.
LoopStep(c) ==
    /\ pc[c] = "loop"
    /\ LET name == tool[c]
           i == idx[c]
           r == BatchItem(name, args[c], i)
       IN  IF r.k = "exec"
           THEN LET url == buildUrl(authToken, r.command, r.params)
                IN  /\ log' = [log EXCEPT ![c] = Append(@, ExecLog(url))]
                    /\ opened' = [opened EXCEPT ![c] = Append(@, url)]
                    /\ pc' = [pc EXCEPT ![c] = "bopen"]
                    /\ UNCHANGED <<idx, results, successCount, failureCount, outcome>>
           ELSE IF CatchThrows(name, args[c], i)
           THEN /\ log' = [log EXCEPT ![c] = @ \o HandlerErrorLog(name, TypeErrorMsg)]
                /\ outcome' = [outcome EXCEPT ![c] = Failed(name, TypeErrorMsg)]
                /\ pc' = [pc EXCEPT ![c] = "done"]
                /\ UNCHANGED <<idx, results, successCount, failureCount, opened>>
           ELSE /\ Advance(c, Append(results[c], FailureLine(name, args[c], i, r.msg)),
                           successCount[c], failureCount[c] + 1)
                /\ UNCHANGED <<opened, log>>
    /\ UNCHANGED <<procVars, phase, tool, args, unitVars>>

\* Failure lines of results that report a rejected open().
DispatchFailures(c) ==
    Cardinality({n \in 1..Len(results[c]) :
        \E j \in 1..Len(results[c][n]) :
            results[c][n][j] = "Things command execution failed: "})

\* open() resolves: executeCommand returns, the client method returns what
\* it got, and the handler goes on with `if (success)`.
OpenResolves(c) ==
    /\ pc[c] \in {"open", "bopen"}
    /\ LET success == executeCommandReturns
       IN  IF pc[c] = "open"
           THEN /\ outcome' = [outcome EXCEPT
                       ![c] = IF tool[c] \in ClientMethods THEN Returned
                              ELSE IF success THEN TextResult(SuccessText(tool[c], args[c]))
                              ELSE Failed(tool[c], NotDone(tool[c]))]
                /\ log' = [log EXCEPT
                       ![c] = IF tool[c] \in ClientMethods \/ success THEN @
                              ELSE @ \o HandlerErrorLog(tool[c], NotDone(tool[c]))]
                /\ pc' = [pc EXCEPT ![c] = "done"]
                /\ UNCHANGED <<idx, results, successCount, failureCount>>
           ELSE LET res == Append(results[c],
                                  IF success THEN SuccessLine(tool[c], args[c], idx[c])
                                  ELSE UndoneLine(tool[c], args[c], idx[c]))
                    sc == successCount[c] + (IF success THEN 1 ELSE 0)
                    fc == failureCount[c] + (IF success THEN 0 ELSE 1)
                IN  /\ UNCHANGED log
                    /\ IF idx[c] < Len(Items(tool[c], args[c])) - 1
                       THEN /\ results' = [results EXCEPT ![c] = res]
                            /\ successCount' = [successCount EXCEPT ![c] = sc]
                            /\ failureCount' = [failureCount EXCEPT ![c] = fc]
                            /\ pc' = [pc EXCEPT ![c] = "delay"]
                            /\ UNCHANGED <<idx, outcome>>
                       ELSE Advance(c, res, sc, fc)
    /\ UNCHANGED <<procVars, phase, tool, args, opened, unitVars>>

\* open() rejects: executeCommand logs and throws.
OpenRejects(c) ==
    /\ pc[c] \in {"open", "bopen"}
    /\ IF pc[c] = "open"
       THEN /\ log' = [log EXCEPT
                   ![c] = Append(@, ExecFailedLog(OsError))
                              \o HandlerErrorLog(tool[c], ExecFailed(OsError))]
            /\ outcome' = [outcome EXCEPT ![c] = Failed(tool[c], ExecFailed(OsError))]
            /\ pc' = [pc EXCEPT ![c] = "done"]
            /\ UNCHANGED <<idx, results, successCount, failureCount>>
       ELSE /\ DispatchFailures(c) < MaxOpenFailures
            /\ log' = [log EXCEPT ![c] = Append(@, ExecFailedLog(OsError))]
            /\ Advance(c, Append(results[c],
                                 FailureLine(tool[c], args[c], idx[c], ExecFailed(OsError))),
                       successCount[c], failureCount[c] + 1)
    /\ UNCHANGED <<procVars, phase, tool, args, opened, unitVars>>

\* The timer of the delay between two items fires.
DelayElapses(c) ==
    /\ pc[c] = "delay"
    /\ idx' = [idx EXCEPT ![c] = @ + 1]
    /\ pc' = [pc EXCEPT ![c] = "loop"]
    /\ UNCHANGED <<procVars, phase, tool, args, results, successCount, failureCount,
                   opened, log, outcome, unitVars>>

\* The answer is sent; nothing of the call is kept.
Respond(c) ==
    /\ pc[c] = "done"
    /\ pc' = [pc EXCEPT ![c] = "idle"]
    /\ tool' = [tool EXCEPT ![c] = ""]
    /\ args' = [args EXCEPT ![c] = <<>>]
    /\ idx' = [idx EXCEPT ![c] = 0]
    /\ results' = [results EXCEPT ![c] = <<>>]
    /\ successCount' = [successCount EXCEPT ![c] = 0]
    /\ failureCount' = [failureCount EXCEPT ![c] = 0]
    /\ opened' = [opened EXCEPT ![c] = <<>>]
    /\ log' = [log EXCEPT ![c] = <<>>]
    /\ outcome' = [outcome EXCEPT ![c] = NoOutcome]
    /\ UNCHANGED <<procVars, phase, unitVars>>

\* The client sends one request at a time and waits for its answer.
Next ==
    \/ Construct
    \/ CallTool("c1")
    \/ ClientCall("c1")
    \/ LoopStep("c1")
    \/ OpenResolves("c1")
    \/ OpenRejects("c1")
    \/ DelayElapses("c1")
    \/ Respond("c1")

Spec == Init /\ [][Next]_vars

(***************************************************************************)
(* A client that does not wait: a second request may arrive while the      *)
(* handler of the first is suspended at an await.  The request handler is  *)
(* an async function and index.js keeps no lock or queue, so each request  *)
(* runs from its arrival to its first await and then step by step.         *)
(***************************************************************************)
ConcTools == {"complete_todo", "batch_add_todos"}

ConcArgs(name) ==
    CASE name = "complete_todo" -> {[id |-> ValidId]}
      [] name = "batch_add_todos" ->
            {[todos |-> Uniform(n, ValidTodo)] : n \in 2..MaxItems}
                \cup {[todos |-> Arr(<<Obj([title |-> Str(<<"U">>)]),
                                       Obj([title |-> Str(<<" ">>)])>>)]}

Request(c) ==
    /\ phase = "serving" /\ pc[c] = "idle"
    /\ \E name \in ConcTools : \E a \in ConcArgs(name) : Start(c, name, a)

NextConc ==
    \/ Construct
    \/ \E c \in Calls : Request(c)
    \/ \E c \in Calls : LoopStep(c)
    \/ \E c \in Calls : OpenResolves(c)
    \/ \E c \in Calls : OpenRejects(c)
    \/ \E c \in Calls : DelayElapses(c)
    \/ \E c \in Calls : Respond(c)

SpecConc == Init /\ [][NextConc]_vars

(***************************************************************************)
(* A process in which the environment variable changes while the server    *)
(* runs: the handlers read process.env at every call, the client read it   *)
(* once, in its constructor.                                               *)
(***************************************************************************)
\* process.env.THINGS_AUTHENTICATION_TOKEN is set, changed or deleted.
SetEnv ==
    /\ phase = "serving"
    /\ \E v \in EnvVals \ {envToken} : envToken' = v
    /\ UNCHANGED <<platform, authToken, phase, callVars, unitVars>>

\* A call of one of the tools that require the credential.
RequestWrite(c) ==
    /\ phase = "serving" /\ pc[c] = "idle"
    /\ \E name \in {"update_todo", "update_project", "complete_todo"} \cup BatchTools :
          \E a \in ToolArgs(name) :
             /\ name \in BatchTools =>
                    LET v == IF name = "batch_add_todos" THEN a.todos ELSE a.ids
                    IN  v.t = "array" /\ Len(v.a) \in 1..MaxItems - 1
             /\ Start(c, name, a)

NextEnv ==
    \/ Construct
    \/ SetEnv
    \/ RequestWrite("c1")
    \/ LoopStep("c1")
    \/ OpenResolves("c1")
    \/ OpenRejects("c1")
    \/ DelayElapses("c1")
    \/ Respond("c1")

SpecEnv == Init /\ [][NextEnv]_vars

(***************************************************************************)
(* buildUrl on its own: every mapping of at most MaxParams entries whose   *)
(* keys and values hold at most MaxChars characters of UnitAlphabet.       *)
(***************************************************************************)
UnitAlphabet == {"a", " ", "+", "&", "=", "?", "#", "%", "\n"}

\* The values that are not strings; in the budget each counts as one character.
Others == <<Undefined, Null, Bool(TRUE)>>

\* A shape gives each of n entries the length of its key and either the
\* length of its string value or, negated, the index in Others of its value.
Cost(e) == e[1] + (IF e[2] < 0 THEN 1 ELSE e[2])
Chars(e) == e[1] + (IF e[2] < 0 THEN 0 ELSE e[2])

RECURSIVE TotalCost(_, _)
\* Cost summed over the first n entries of shape sh
TotalCost(sh, n) == IF n = 0 THEN 0 ELSE Cost(sh[n]) + TotalCost(sh, n - 1)

RECURSIVE TotalChars(_, _)
\* Chars summed over the first n entries of shape sh
TotalChars(sh, n) == IF n = 0 THEN 0 ELSE Chars(sh[n]) + TotalChars(sh, n - 1)

Shapes(n, b) ==
    {sh \in [1..n -> (0..b) \X ((0 - Len(Others))..b)] : TotalCost(sh, n) <= b}

\* The mapping of shape sh whose characters, in order, are those of flat.
Build(sh, flat) ==
    [n \in 1..Len(sh) |->
        LET from == TotalChars(sh, n - 1)
        IN  [k |-> SubSeq(flat, from + 1, from + sh[n][1]),
             v |-> IF sh[n][2] < 0 THEN Others[0 - sh[n][2]]
                   ELSE Str(SubSeq(flat, from + sh[n][1] + 1, from + sh[n][1] + sh[n][2]))]]

\* An object has each key once.
DistinctKeys(ps) == \A i, j \in 1..Len(ps) : ps[i].k = ps[j].k => i = j

TempAdd == <<[k |-> <<"title">>, v |-> Str(<<"Temp", " ", "Add", " ", "From", " ", "MCP">>)]>>

\* ps is a mapping of at most MaxParams entries within MaxChars characters,
\* or the mapping of the title "Temp Add From MCP".
UnitParams(ps) ==
    \/ \E n \in 0..MaxParams : \E sh \in Shapes(n, MaxChars) :
          \E flat \in [1..TotalChars(sh, n) -> UnitAlphabet] :
             /\ ps = Build(sh, flat)
             /\ DistinctKeys(ps)
    \/ ps = TempAdd

InitUnit ==
    /\ platform = "darwin"
    /\ envToken \in {Undefined, Str(<<"tok", "+", "en">>)}
    /\ authToken = envToken
    /\ phase = "unit"
    /\ pc = [c \in Calls |-> "idle"]
    /\ tool = [c \in Calls |-> ""]
    /\ args = [c \in Calls |-> <<>>]
    /\ idx = [c \in Calls |-> 0]
    /\ results = [c \in Calls |-> <<>>]
    /\ successCount = [c \in Calls |-> 0]
    /\ failureCount = [c \in Calls |-> 0]
    /\ opened = [c \in Calls |-> <<>>]
    /\ log = [c \in Calls |-> <<>>]
    /\ outcome = [c \in Calls |-> NoOutcome]
    /\ \/ uCommand \in {<<"show">>, <<"add">>} /\ UnitParams(uParams)
       \/ uCommand = <<>> /\ uParams \in {<<>>, TempAdd}
    /\ uUrl = [done |-> FALSE, url |-> <<>>]

\* client.buildUrl(uCommand, uParams)
BuildUnit ==
    /\ phase = "unit" /\ ~uUrl.done
    /\ uUrl' = [done |-> TRUE, url |-> buildUrl(authToken, uCommand, uParams)]
    /\ UNCHANGED <<procVars, phase, callVars, uCommand, uParams>>

SpecUrl == InitUnit /\ [][BuildUnit]_vars

(***************************************************************************)
(* Reading a URL back, as the receiving application does.                  *)
(***************************************************************************)
Count(ch, s) == Cardinality({n \in 1..Len(s) : s[n] = ch})

Has(ch, s) == \E n \in 1..Len(s) : s[n] = ch

\* Index of the first ch of s, or 0.
First(ch, s) == IF Has(ch, s) THEN CHOOSE n \in 1..Len(s) : s[n] = ch /\ ~Has(ch, SubSeq(s, 1, n - 1)) ELSE 0

RECURSIVE Split(_, _)
\* s split at every sep
Split(s, sep) ==
    IF ~Has(sep, s) THEN <<s>>
    ELSE <<SubSeq(s, 1, First(sep, s) - 1)>> \o Split(SubSeq(s, First(sep, s) + 1, Len(s)), sep)

\* The query of a URL: what follows its first "?" (no "?": no query).
HasQuery(url) == Has("?", url)
QueryOf(url) == SubSeq(url, First("?", url) + 1, Len(url))

\* The key=value parts of a URL, undecoded.
RawParts(url) == IF HasQuery(url) THEN Split(QueryOf(url), "&") ELSE <<>>

RawKey(part) == IF Has("=", part) THEN SubSeq(part, 1, First("=", part) - 1) ELSE part
RawValue(part) == IF Has("=", part) THEN SubSeq(part, First("=", part) + 1, Len(part)) ELSE <<>>

\* The decoded [k, v] pairs of a URL, in order.
Pairs(url) ==
    [n \in 1..Len(RawParts(url)) |->
        [k |-> decodeURIComponent(RawKey(RawParts(url)[n])),
         v |-> decodeURIComponent(RawValue(RawParts(url)[n]))]]

\* The keys of the parameters of a URL.
Keys(url) == {Pairs(url)[n].k : n \in 1..Len(Pairs(url))}

\* The decoded value of parameter key of a URL that has it.
Param(url, key) == Pairs(url)[CHOOSE n \in 1..Len(Pairs(url)) : Pairs(url)[n].k = key].v

\* The command of a URL: its path after things:///
CommandOf(url) ==
    SubSeq(url, 6, IF HasQuery(url) THEN First("?", url) - 1 ELSE Len(url))

\* The entries of a mapping that buildUrl is to emit, with String(value).
Emitted(ps) ==
    LET keep == SelectSeq(ps, LAMBDA e : e.v.t \notin {"undefined", "null"})
    IN  [n \in 1..Len(keep) |-> [k |-> keep[n].k, v |-> ToStr(keep[n].v)]]

\* Whether the credential pair is injected.
Injected(token, command) == Truthy(token) /\ command # <<"show">>

RECURSIVE SpacesAligned(_, _)
\* e carries string s unit by unit (one character, or one three-character
\* escape), with %20 wherever s has a space.
SpacesAligned(s, e) ==
    IF s = <<>> THEN e = <<>>
    ELSE IF e = <<>> THEN FALSE
    ELSE IF Head(s) = " "
    THEN Len(e) >= 3 /\ SubSeq(e, 1, 3) = <<"%", "2", "0">>
         /\ SpacesAligned(Tail(s), SubSeq(e, 4, Len(e)))
    ELSE IF Head(e) = "%"
    THEN Len(e) >= 3 /\ SpacesAligned(Tail(s), SubSeq(e, 4, Len(e)))
    ELSE SpacesAligned(Tail(s), Tail(e))

\* The "+" characters of the inputs of the unit-level call.
PlusIn(token, ps) ==
    (IF IsStr(token) THEN Count("+", token.s) ELSE 0)
    + Count("+", Join([n \in 1..Len(ps) |-> ps[n].k \o ToStr(ps[n].v)], <<>>))

\* s occurs in t as a contiguous run
Within(s, t) == \E n \in 0..(Len(t) - Len(s)) : SubSeq(t, n + 1, n + Len(s)) = s

\* C1: in every URL buildUrl produces, each emitted key and value has %20 at
\* each of its space positions, the URL holds no more "+" than its inputs
\* did, and the title "Temp Add From MCP" gives title=Temp%20Add%20From%20MCP.
C1_SpacesPercent20 ==
    uUrl.done =>
        LET parts == RawParts(uUrl.url)
            em == Emitted(uParams)
            off == IF Injected(authToken, uCommand) THEN 1 ELSE 0
        IN  /\ Len(parts) = Len(em) + off
            /\ \A n \in 1..Len(em) :
                  /\ SpacesAligned(em[n].k, RawKey(parts[n + off]))
                  /\ SpacesAligned(em[n].v, RawValue(parts[n + off]))
            /\ ~Has(" ", uUrl.url)
            /\ Count("+", uUrl.url) <= PlusIn(authToken, uParams)
            /\ (uParams = TempAdd =>
                    Within(<<"title", "=", "Temp", "%", "2", "0", "Add", "%", "2", "0",
                             "From", "%", "2", "0", "MCP">>, uUrl.url))

\* A URL was built from a mapping with a space in a key and in its value.
C1_Witness ==
    /\ uUrl.done
    /\ \E n \in 1..Len(uParams) :
          /\ Has(" ", uParams[n].k)
          /\ IsStr(uParams[n].v) /\ Has(" ", uParams[n].v.s)

\* C2: reading the query of a built URL back (split on "&", then on the first
\* "=", each part percent-decoded) gives the credential pair, when injected,
\* and then exactly the entries whose value is neither undefined nor null;
\* the URL has one "?" when it has pairs, one "=" per pair and one "&"
\* between two pairs.
C2_RoundTrip ==
    uUrl.done =>
        LET expected ==
                (IF Injected(authToken, uCommand)
                 THEN <<[k |-> <<"auth-token">>, v |-> ToStr(authToken)]>>
                 ELSE <<>>) \o Emitted(uParams)
        IN  /\ Pairs(uUrl.url) = expected
            /\ Count("?", uUrl.url) = (IF Len(expected) > 0 THEN 1 ELSE 0)
            /\ Count("=", uUrl.url) = Len(expected)
            /\ Count("&", uUrl.url) = (IF Len(expected) > 0 THEN Len(expected) - 1 ELSE 0)

\* A URL was built from an entry with a separator as its key and a separator
\* as its value.
C2_Witness ==
    /\ uUrl.done
    /\ \E n \in 1..Len(uParams) :
          /\ uParams[n].k \in {<<"&">>, <<"=">>, <<"?">>}
          /\ IsStr(uParams[n].v) /\ uParams[n].v.s \in {<<"&">>, <<"=">>, <<"?">>}

\* The calls in progress and the URLs each has handed to open() so far.
Active(c) == pc[c] # "idle"
Urls(c) == {opened[c][n] : n \in 1..Len(opened[c])}

\* C3: when a credential is configured, every URL handed to open() for a
\* command other than show carries the auth-token parameter with the
\* credential as its value, and no URL of the show command carries it.
C3_AuthTokenOnAllButShow ==
    Truthy(authToken) =>
        \A c \in Calls : \A url \in Urls(c) :
            IF CommandOf(url) = <<"show">>
            THEN <<"auth-token">> \notin Keys(url)
            ELSE /\ <<"auth-token">> \in Keys(url)
                 /\ Param(url, <<"auth-token">>) = ToStr(authToken)

\* With a credential configured, a batch call has opened a URL of a command
\* other than show.
C3_Witness ==
    /\ Truthy(authToken)
    /\ tool["c1"] = "batch_complete_todos"
    /\ \E url \in Urls("c1") : CommandOf(url) = <<"update">>

\* C4: showList called with an identifier outside the fixed set opens no
\* URL and ends in an error.
C4_ShowListValidates ==
    \A c \in Calls :
        (/\ Active(c) /\ tool[c] = "client.showList"
         /\ args[c] \notin {Str(<<l>>) : l \in ValidListIds})
        => /\ opened[c] = <<>>
           /\ pc[c] = "done" => outcome[c].kind = "threw"

\* The tools of the operations beyond navigation and search.
WriteTools ==
    {"add_todo", "add_project", "update_todo", "update_project", "complete_todo"}
        \cup BatchTools

\* C5: with no credential configured, a call of a tool of an operation
\* beyond navigation opens no URL and ends in an error.
C5_NoCredentialFailsFast ==
    \A c \in Calls :
        (Active(c) /\ tool[c] \in WriteTools /\ ~Truthy(envToken))
        => /\ opened[c] = <<>>
           /\ pc[c] = "done" => outcome[c].kind = "error"

\* The URL of a call that has opened exactly one.
TheUrl(c) == opened[c][1]

\* url has parameter key with the characters of the string v as its value.
Sends(url, key, v) == <<key>> \in Keys(url) /\ Param(url, <<key>>) = v

\* Blank: a string of white space only (the empty string included).
Blank(v) == IsStr(v) /\ \A n \in 1..Len(v.s) : v.s[n] \in WhiteSpace

\* v without its leading and trailing white space
Strip(x) ==
    LET keep == {n \in 1..Len(x) : x[n] \notin WhiteSpace}
    IN  IF keep = {} THEN <<>>
        ELSE SubSeq(x, CHOOSE n \in keep : \A m \in keep : n <= m,
                       CHOOSE n \in keep : \A m \in keep : n >= m)

UpdateArgs(name) ==
    IF name = "update_todo"
    THEN {"title", "notes", "when", "deadline", "tags", "checklist", "list"}
    ELSE {"title", "notes", "when", "deadline", "tags", "area"}

\* C6 (as amended): in the URL of an update_todo or update_project call,
\* notes, deadline, tags and checklist supplied as a string, the empty one
\* included, are parameters with that string as value; title, list and area
\* are parameters, trimmed, only when not blank; when is a parameter only
\* when not empty; an absent argument is no parameter.
C6_UpdateArgsReachUrl ==
    \A c \in Calls :
        (tool[c] \in {"update_todo", "update_project"} /\ opened[c] # <<>>)
        => \A f \in UpdateArgs(tool[c]) :
              LET v == args[c][f]
                  url == TheUrl(c)
              IN  CASE v = Undefined -> <<f>> \notin Keys(url)
                    [] f \in {"notes", "deadline", "tags", "checklist"} /\ IsStr(v) ->
                          Sends(url, f, v.s)
                    [] f \in {"title", "list", "area"} /\ IsStr(v) ->
                          IF Blank(v) THEN <<f>> \notin Keys(url)
                          ELSE Sends(url, f, Strip(v.s))
                    [] f = "when" /\ IsStr(v) ->
                          IF v.s = <<>> THEN <<f>> \notin Keys(url)
                          ELSE Sends(url, f, v.s)
                    [] OTHER -> TRUE

\* An update_todo call supplied empty notes and a blank title and opened
\* its URL.
C6_Witness ==
    /\ tool["c1"] = "update_todo" /\ opened["c1"] # <<>>
    /\ args["c1"].notes = Str(<<>>)
    /\ args["c1"].title = Str(<<" ">>)

\* C6 as stated: every argument of update_todo or update_project that is
\* supplied, the empty string included, is a parameter of the URL with the
\* supplied value, and an absent argument is none.
C6_EverySuppliedArgReachesUrl ==
    \A c \in Calls :
        (tool[c] \in {"update_todo", "update_project"} /\ opened[c] # <<>>)
        => \A f \in UpdateArgs(tool[c]) :
              IF args[c][f] = Undefined THEN <<f>> \notin Keys(TheUrl(c))
              ELSE IsStr(args[c][f]) => Sends(TheUrl(c), f, args[c][f].s)

\* The parameter keys of an add URL besides the credential.
AddKeys(url) == Keys(url) \ {<<"auth-token">>}

\* C7 (as amended): the URL of addTodo has title, the credential when one
\* is configured, and exactly the optional fields supplied with a value
\* that is not empty; through the add_todo tool, exactly those supplied
\* with a non-blank value (when, deadline: non-empty), trimmed.
C7_AddTodoMapping ==
    \A c \in Calls :
        (tool[c] \in {"client.addTodo", "add_todo"} /\ opened[c] # <<>>)
        => LET url == TheUrl(c)
               a == IF tool[c] = "add_todo" THEN args[c] ELSE args[c].f
               direct == tool[c] = "client.addTodo"
               sent == {f \in {"notes", "when", "deadline", "tags", "checklist", "list"} :
                           /\ IsStr(a[f])
                           /\ IF direct \/ f \in {"when", "deadline"}
                              THEN a[f].s # <<>> ELSE ~Blank(a[f])}
           IN  /\ AddKeys(url) = {<<"title">>} \cup {<<f>> : f \in sent}
               /\ (<<"auth-token">> \in Keys(url)) = Truthy(authToken)
               /\ Sends(url, "title", IF direct THEN a.title.s ELSE Strip(a.title.s))
               /\ \A f \in sent :
                     Sends(url, f, IF direct \/ f \in {"when", "deadline"}
                                   THEN a[f].s ELSE Strip(a[f].s))

\* addTodo was called with a title and an empty notes field and opened its
\* URL.
C7_Witness ==
    /\ tool["c1"] = "client.addTodo" /\ opened["c1"] # <<>>
    /\ args["c1"].f.notes = Str(<<>>)
    /\ args["c1"].f.tags # Undefined /\ args["c1"].f.tags # Str(<<>>)

\* C7 as stated: the URL of addTodo has title and exactly the optional
\* fields that were supplied.
C7_ExactlySuppliedFields ==
    \A c \in Calls :
        (tool[c] = "client.addTodo" /\ opened[c] # <<>>)
        => AddKeys(TheUrl(c)) =
              {<<"title">>} \cup {<<f>> : f \in {g \in {"notes", "when", "deadline", "tags",
                                                      "checklist", "list"} :
                                                 args[c].f[g] # Undefined}}

\* A batch item with an empty or whitespace-only title.
BlankTitle(item) == item.t = "object" /\ Blank(Get(item, "title"))

\* A batch item with a title that is a string and not blank.
Titled(item) ==
    item.t = "object" /\ IsStr(Get(item, "title")) /\ ~Blank(Get(item, "title"))

\* The lines of the detailed results of a report.
ReportLines(text) == Split(text, "\n")

\* C8: a batch_add_todos call on N items of which exactly item k has a blank
\* title, with a credential and no dispatch failing, ends with a report of
\* N-1 successes and 1 failure whose k-th line is the failure and whose
\* other lines are successes, and has opened one URL for each item but k,
\* in order.
C8_OneBlankTitle ==
    \A c \in Calls :
        (/\ tool[c] = "batch_add_todos" /\ pc[c] = "done" /\ Truthy(envToken)
         /\ args[c].todos.t = "array" /\ DispatchFailures(c) = 0)
        => LET items == args[c].todos.a
               N == Len(items)
           IN  \A k \in 1..N :
                  (BlankTitle(items[k]) /\ \A j \in 1..N : j # k => Titled(items[j]))
                  => /\ outcome[c].kind = "result"
                     /\ Within(<<ToString(N - 1), " successful, ", "1", " failed">>,
                               outcome[c].text)
                     /\ Len(ReportLines(outcome[c].text)) = N
                     /\ \A j \in 1..N :
                           IF j = k THEN Has("FAIL", ReportLines(outcome[c].text)[j])
                           ELSE /\ Has("OK", ReportLines(outcome[c].text)[j])
                                /\ ~Has("FAIL", ReportLines(outcome[c].text)[j])
                     /\ Len(opened[c]) = N - 1
                     /\ \A m \in 1..(N - 1) :
                           Sends(opened[c][m], "title",
                                 Strip(Get(items[IF m < k THEN m ELSE m + 1], "title").s))

\* A batch of three items whose second has a blank title has ended, with no
\* dispatch failing.
C8_Witness ==
    /\ tool["c1"] = "batch_add_todos" /\ pc["c1"] = "done" /\ Truthy(envToken)
    /\ args["c1"].todos.t = "array" /\ Len(args["c1"].todos.a) = 3
    /\ DispatchFailures("c1") = 0
    /\ BlankTitle(args["c1"].todos.a[2])
    /\ Titled(args["c1"].todos.a[1]) /\ Titled(args["c1"].todos.a[3])

\* C9: a batch call that has entered its loop ends with its report, with
\* one outcome line per item, whatever its items are and however their
\* dispatches end.
C9_ItemFailuresIsolated ==
    \A c \in Calls :
        (/\ tool[c] \in BatchTools /\ pc[c] = "done"
         /\ Handler(tool[c], platform, envToken, args[c]).k = "loop")
        => /\ outcome[c].kind = "result"
           /\ Len(results[c]) = Len(Items(tool[c], args[c]))

\* The cap of each kind of batch.
Cap(name) ==
    CASE name = "batch_add_todos" -> MaxItemsAdd
      [] name = "batch_complete_todos" -> MaxItemsComplete
      [] name = "batch_update_todos" -> MaxItemsUpdate

\* The items argument of a batch call: args.todos or args.ids.
ItemsArg(c) == IF tool[c] = "batch_add_todos" THEN args[c].todos ELSE args[c].ids

\* C10: a batch call whose items array is empty or longer than the cap of
\* its kind opens no URL and ends in an error.
C10_BatchSizeChecked ==
    \A c \in Calls :
        (/\ Active(c) /\ tool[c] \in BatchTools
         /\ ItemsArg(c).t = "array"
         /\ Len(ItemsArg(c).a) = 0 \/ Len(ItemsArg(c).a) > Cap(tool[c]))
        => /\ opened[c] = <<>>
           /\ pc[c] = "done" => outcome[c].kind = "error"

\* The items of a batch call handled so far: those before the loop index,
\* and the one at it while the delay after it runs.
Processed(c) == idx[c] + (IF pc[c] = "delay" THEN 1 ELSE 0)

\* C11: in a batch call the two counters always sum to the number of items
\* handled so far, there is one outcome line for each of these, in input
\* order (the i-th line names position i), and a report has one line per
\* input item and states counters that sum to the number of items.
C11_OneLinePerItem ==
    \A c \in Calls :
        (Active(c) /\ tool[c] \in BatchTools)
        => /\ successCount[c] + failureCount[c] = Processed(c)
           /\ Len(results[c]) = Processed(c)
           /\ \A i \in 1..Len(results[c]) :
                 Within(<<" Todo ", ToString(i), ": \"">>, results[c][i])
           /\ (pc[c] = "done" /\ outcome[c].kind = "result")
              => LET N == Len(ItemsArg(c).a)
                     lines == ReportLines(outcome[c].text)
                 IN  /\ Len(results[c]) = N /\ Len(lines) = N
                     /\ \A i \in 1..N : Within(results[c][i], lines[i])
                     /\ \E sc, fc \in 0..N :
                           /\ sc + fc = N
                           /\ Within(<<ToString(sc), " successful, ", ToString(fc),
                                       " failed">>, lines[1])

\* A batch of three items has ended with a report of successes and failures.
C11_Witness ==
    /\ tool["c1"] \in BatchTools /\ pc["c1"] = "done"
    /\ outcome["c1"].kind = "result"
    /\ successCount["c1"] > 0 /\ failureCount["c1"] > 1

\* The strings of an array of strings.
Texts(arr) == [n \in 1..Len(arr.a) |-> arr.a[n].s]

\* C12 (as amended): an add_project call opens one add-project URL whose
\* title parameter is the supplied title, trimmed, and whose todos
\* parameter, present exactly when a todos array is supplied, is the
\* supplied todos that are not blank, each trimmed, joined by newline
\* characters in input order.
C12_ProjectTodosJoined ==
    \A c \in Calls :
        (tool[c] = "add_project" /\ opened[c] # <<>>)
        => LET url == TheUrl(c)
               todos == args[c].todos
           IN  /\ Len(opened[c]) = 1
               /\ CommandOf(url) = <<"add-project">>
               /\ Sends(url, "title", Strip(args[c].title.s))
               /\ IF todos.t = "array"
                  THEN LET kept == SelectSeq(Texts(todos), LAMBDA t : Strip(t) # <<>>)
                       IN  Sends(url, "todos",
                                 Join([n \in 1..Len(kept) |-> Strip(kept[n])], <<"\n">>))
                  ELSE <<"todos">> \notin Keys(url)

\* add_project was called with "Create wireframes", an empty string and
\* " Design mockups" as todos and has opened its URL.
C12_Witness ==
    /\ tool["c1"] = "add_project" /\ opened["c1"] # <<>>
    /\ args["c1"].todos.t = "array" /\ Len(args["c1"].todos.a) = 3
    /\ Param(TheUrl("c1"), <<"todos">>)
          = <<"Create", " ", "wireframes", "\n", "Design", " ", "mockups">>

\* C12 as stated: the todos parameter of the URL of add_project is the
\* supplied todos joined by newline characters.
C12_TodosJoinedAsSupplied ==
    \A c \in Calls :
        (tool[c] = "add_project" /\ opened[c] # <<>> /\ args[c].todos.t = "array")
        => Sends(TheUrl(c), "todos", Join(Texts(args[c].todos), <<"\n">>))

\* The identifiers a completing call was given: the id of completeTodo and
\* of complete_todo, the ids of batch_complete_todos.
GivenIds(c) ==
    CASE tool[c] = "client.completeTodo" -> {Get(args[c], "id")}
      [] tool[c] = "complete_todo" -> {args[c].id}
      [] tool[c] = "batch_complete_todos" ->
            {args[c].ids.a[n] : n \in 1..Len(args[c].ids.a)}

\* C13: every URL opened by completeTodo, by complete_todo or by an item of
\* batch_complete_todos is of the update command and has the parameter
\* completed=true and an id parameter that is one of the identifiers given
\* (trimmed by the tools).
C13_CompleteCarriesFlag ==
    \A c \in Calls :
        tool[c] \in {"client.completeTodo", "complete_todo", "batch_complete_todos"}
        => \A url \in Urls(c) :
              /\ CommandOf(url) = <<"update">>
              /\ Sends(url, "completed", <<"true">>)
              /\ <<"id">> \in Keys(url)
              /\ \E id \in GivenIds(c) :
                    /\ IsStr(id)
                    /\ Param(url, <<"id">>)
                          = IF tool[c] = "client.completeTodo" THEN id.s ELSE Strip(id.s)

\* A batch_complete_todos call has opened the URL of its second item.
C13_Witness ==
    /\ tool["c1"] = "batch_complete_todos"
    /\ Len(opened["c1"]) = 2

\* The call has logged a rejection of open().
DispatchFailed(c) == \E n \in 1..Len(log[c]) : log[c][n] = ExecFailedLog(OsError)

\* C14: a domain operation called directly ends by returning true or by
\* throwing, and throws when its dispatch failed; no tool answers with the
\* message of the else branch of its `if (success)`, and no batch line is
\* the line of that branch.
C14_TrueOrThrows ==
    \A c \in Calls :
        /\ (tool[c] \in ClientMethods /\ pc[c] = "done")
           => /\ \/ outcome[c].kind = "threw"
                 \/ outcome[c].kind = "returned" /\ outcome[c].value = TRUE
              /\ DispatchFailed(c)
                 => /\ outcome[c].kind = "threw"
                    /\ Within(<<"Things command execution failed: ">>, outcome[c].msg)
        /\ (tool[c] \in SingleTools /\ pc[c] = "done")
           => /\ outcome[c].kind = "error" => ~Within(NotDone(tool[c]), outcome[c].msg)
              /\ DispatchFailed(c) => outcome[c].kind = "error"
        /\ tool[c] \in BatchTools
           => \A n \in 1..Len(results[c]) :
                 results[c][n][Len(results[c][n])]
                    \notin {"\" - Failed to create", "\" - Failed to complete",
                            "\" - Failed to update"}

\* updateTodo, called directly, has thrown after open() rejected.
C14_Witness ==
    /\ tool["c1"] = "client.updateTodo" /\ pc["c1"] = "done"
    /\ DispatchFailed("c1") /\ outcome["c1"].kind = "threw"

\* The required argument of a single-operation tool that has one.
RequiredArg(name) ==
    CASE name \in {"add_todo", "add_project"} -> "title"
      [] name \in {"search", "search_advanced"} -> "query"
      [] name \in {"update_todo", "update_project", "complete_todo"} -> "id"

\* The tools whose handler throws when the credential is not configured.
CredentialChecked == {"update_todo", "update_project", "complete_todo"} \cup BatchTools

\* The call in slot c fails the platform check, the credential check or the
\* input validation of its handler.
FailsChecks(c) ==
    \/ ~isThingsAvailable(platform)
    \/ tool[c] \in CredentialChecked /\ ~Truthy(envToken)
    \/ tool[c] \in SingleTools \ ShowNames /\ ~NonBlank(args[c][RequiredArg(tool[c])])
    \/ tool[c] \in BatchTools /\ NoItems(ItemsArg(c))

WhenValues == {<<"today">>, <<"tomorrow">>, <<"evening">>, <<"anytime">>, <<"someday">>}

\* The single-operation tools that take a `when` argument.
WhenTools == {"add_todo", "add_project", "update_todo", "update_project"}

\* C16: a call of add_todo, add_project, update_todo or update_project whose
\* when argument is a non-empty value that is not one of today, tomorrow,
\* evening, anytime, someday opens no URL and ends in an error.
C16_WhenOutsideEnumRejected ==
    \A c \in Calls :
        (/\ tool[c] \in WhenTools
         /\ Truthy(args[c].when)
         /\ ~(IsStr(args[c].when) /\ args[c].when.s \in WhenValues)) =>
            /\ opened[c] = <<>>
            /\ pc[c] = "done" => outcome[c].kind = "error"

\* The handler of the call in slot c has started and has not yet returned
\* or thrown.
InFlight(c) == pc[c] \in {"open", "loop", "bopen", "delay"}

\* C17: at most one tool call is in flight at any time: while the handler of
\* one call is between its start and its return, a batch between two of its
\* items included, no other call has a handler running.
C17_OneCallInFlight ==
    \A c, d \in Calls : c # d => ~(InFlight(c) /\ InFlight(d))

\* s begins with t.
StartsWith(s, t) == Len(s) >= Len(t) /\ SubSeq(s, 1, Len(t)) = t

\* The catch block of the handler of the call in slot c has run: it logged
\* its `Failed to ...: ` message before throwing it.
HandlerThrew(c) ==
    \E n \in 1..Len(log[c]) : StartsWith(log[c][n], ErrorContext(tool[c]))

\* C18: a call_tool request that has ended carries exactly one outcome, a text
\* result with the string the handler returned or an error with a message,
\* and none before it has ended; an unregistered tool name gives
\* MethodNotFound with no handler run (nothing logged, nothing opened); a
\* handler that threw gives InternalError with its message, never a result,
\* and a result is given only when no handler threw.
C18_ResultOrError ==
    \A c \in Calls :
        tool[c] \in RegisteredTools \cup {"no_such_tool"} =>
            /\ pc[c] = "done" => outcome[c].kind \in {"result", "error"}
            /\ pc[c] \notin {"done", "idle"} => outcome[c] = NoOutcome
            /\ tool[c] = "no_such_tool" =>
                   /\ pc[c] = "done"
                   /\ outcome[c] = McpError("MethodNotFound", <<"Unknown tool: ", "no_such_tool">>)
                   /\ opened[c] = <<>> /\ log[c] = <<>>
            /\ tool[c] \in RegisteredTools /\ HandlerThrew(c) =>
                   /\ pc[c] = "done"
                   /\ outcome[c].kind = "error" /\ outcome[c].code = "InternalError"
                   /\ outcome[c].msg = <<"Tool execution failed: ">> \o log[c][Len(log[c])]
            /\ tool[c] \in RegisteredTools /\ outcome[c].kind = "error" =>
                   outcome[c].code = "InternalError" /\ HandlerThrew(c)
            /\ tool[c] \in SingleTools /\ outcome[c].kind = "result" =>
                   outcome[c].text = SuccessText(tool[c], args[c])
            /\ tool[c] \in BatchTools /\ outcome[c].kind = "result" =>
                   outcome[c].text = Report(tool[c], args[c], successCount[c],
                                            failureCount[c], results[c])

\* add_todo without a title has thrown in its handler and was answered with
\* an InternalError.
C18_Witness ==
    /\ tool["c1"] = "add_todo" /\ pc["c1"] = "done"
    /\ ~NonBlank(args["c1"].title) /\ HandlerThrew("c1")
    /\ outcome["c1"].kind = "error" /\ outcome["c1"].code = "InternalError"

\* The list each navigation tool is to show.
ListOfTool(name) ==
    CASE name = "show_today_list" -> "today"
      [] name = "show_inbox" -> "inbox"
      [] name = "show_upcoming" -> "upcoming"
      [] name = "show_anytime" -> "anytime"
      [] name = "show_someday" -> "someday"
      [] name = "show_projects" -> "projects"
      [] name = "show_areas" -> "areas"
      [] name = "show_logbook" -> "logbook"

\* things:///show?id=<list>
ShowUrl(list) == <<"things", ":", "/", "/", "/", "show", "?", "id", "=", list>>

\* C19: a call of one of the eight navigation tools has opened exactly one
\* URL, things:///show?id=<list> for the list that belongs to the tool's
\* name, whose only parameter is id, whether or not a credential is
\* configured.
C19_ShowOpensItsList ==
    \A c \in Calls :
        tool[c] \in {"show_today_list", "show_inbox", "show_upcoming", "show_anytime",
                     "show_someday", "show_projects", "show_areas", "show_logbook"} =>
            /\ opened[c] = <<ShowUrl(ListOfTool(tool[c]))>>
            /\ Keys(TheUrl(c)) = {<<"id">>}
            /\ CommandOf(TheUrl(c)) = <<"show">>

\* show_logbook has answered with its success text, with a credential
\* configured, after opening things:///show?id=logbook.
C19_Witness ==
    /\ tool["c1"] = "show_logbook" /\ pc["c1"] = "done"
    /\ Truthy(authToken) /\ outcome["c1"].kind = "result"
    /\ opened["c1"] = <<ShowUrl("logbook")>>

\* C20: within a batch call the next item is started only by the end of the
\* delay that follows the item before it, whether that item succeeded, failed
\* validation or failed dispatch, and never while a dispatch is pending; the
\* handler waits for no delay after the last item.
C20_DelayBetweenItems ==
    [][\A c \in Calls :
          tool[c] \in BatchTools =>
              /\ (idx'[c] = idx[c] + 1 /\ pc'[c] = "loop") => pc[c] = "delay"
              /\ Len(opened'[c]) > Len(opened[c]) => pc[c] = "loop"
              /\ pc[c] = "delay" => idx[c] < Len(Items(tool[c], args[c])) - 1]_vars

\* The optional fields of the data of updateTodo and updateProject.
ClientUpdateFields(name) ==
    IF name = "client.updateTodo"
    THEN {"title", "notes", "when", "deadline", "tags", "checklist", "list"}
    ELSE {"title", "notes", "when", "deadline", "tags", "area"}

\* C21 (as amended): the URL opened by updateTodo or updateProject is an
\* update URL that carries id, carries every other field whose value is
\* neither undefined nor null with that value, the empty string included
\* (notes: "" gives notes= with an empty value), carries no field that is
\* undefined, absent or null, and carries nothing else but the credential;
\* without an id nothing is opened.
C21_UpdateFieldsNotUndefined ==
    \A c \in Calls :
        tool[c] \in {"client.updateTodo", "client.updateProject"} =>
            IF ~Truthy(args[c]) \/ ~Truthy(Get(args[c], "id"))
            THEN opened[c] = <<>>
            ELSE /\ Len(opened[c]) = 1
                 /\ CommandOf(TheUrl(c)) = <<"update">>
                 /\ Sends(TheUrl(c), "id", ToStr(Get(args[c], "id")))
                 /\ \A f \in ClientUpdateFields(tool[c]) :
                        LET v == Get(args[c], f)
                        IN  IF v.t \in {"undefined", "null"}
                            THEN <<f>> \notin Keys(TheUrl(c))
                            ELSE Sends(TheUrl(c), f, ToStr(v))
                 /\ Keys(TheUrl(c)) \subseteq
                        {<<"id">>, <<"auth-token">>}
                            \cup {<<f>> : f \in ClientUpdateFields(tool[c])}

\* updateTodo was called with an id and notes: "" and opened a URL with an
\* empty notes parameter and no title.
C21_Witness ==
    /\ tool["c1"] = "client.updateTodo" /\ opened["c1"] # <<>>
    /\ Get(args["c1"], "notes") = Str(<<>>)
    /\ Sends(TheUrl("c1"), "notes", <<>>)
    /\ <<"title">> \notin Keys(TheUrl("c1"))

\* C21 as stated: every field whose value is not undefined is a parameter of
\* the URL, and every field that is undefined is none.
C21_EveryDefinedFieldSent ==
    \A c \in Calls :
        (tool[c] \in {"client.updateTodo", "client.updateProject"} /\ opened[c] # <<>>) =>
            /\ <<"id">> \in Keys(TheUrl(c))
            /\ \A f \in ClientUpdateFields(tool[c]) :
                   <<f>> \in Keys(TheUrl(c)) <=> Get(args[c], f) # Undefined

\* C22: buildUrl called with the empty string as command raises an error:
\* the call has produced no URL that executeCommand could open.
C22_EmptyCommandRaises ==
    (phase = "unit" /\ uUrl.done /\ uCommand = <<>>) => uUrl.url = <<>>

\* C23: the query of a built URL is the credential pair first, when it is
\* injected, then one key=value part for each entry whose value is neither
\* undefined nor null, in the order of the entries; an entry with an undefined
\* or null value has no part, the key of each emitted entry heads exactly one
\* part, and the URL has a "?" exactly when there is a part.
C23_QueryInOrder ==
    uUrl.done =>
        LET parts == RawParts(uUrl.url)
            em == Emitted(uParams)
            off == IF Injected(authToken, uCommand) THEN 1 ELSE 0
        IN  /\ Len(parts) = off + Len(em)
            /\ off = 1 =>
                   parts[1] = <<"auth-token", "=">> \o encodeURIComponent(ToStr(authToken))
            /\ \A n \in 1..Len(em) :
                   /\ parts[n + off] = encodeURIComponent(em[n].k) \o <<"=">>
                                           \o encodeURIComponent(em[n].v)
                   /\ Cardinality({m \in 1..Len(parts) :
                                      RawKey(parts[m]) = encodeURIComponent(em[n].k)}) = 1
            /\ \A n \in 1..Len(uParams) :
                   uParams[n].v.t \in {"undefined", "null"} =>
                       \A m \in 1..Len(parts) :
                           RawKey(parts[m]) # encodeURIComponent(uParams[n].k)
            /\ HasQuery(uUrl.url) <=> off + Len(em) > 0

\* A URL was built, with the credential injected, from a mapping whose first
\* entry is null and whose second entry is emitted.
C23_Witness ==
    /\ uUrl.done /\ Injected(authToken, uCommand)
    /\ Len(uParams) = 2
    /\ uParams[1].v = Null /\ IsStr(uParams[2].v)
    /\ Len(RawParts(uUrl.url)) = 2

\* The filter argument of the search_advanced call in slot c, and its range.
FilterOf(c) == IF Truthy(args[c].filter) THEN args[c].filter ELSE Undefined
RangeOf(c) == Get(FilterOf(c), "date_range")

\* The optional filters of search_advanced that are sent under their own name.
FilterNames == {"status", "type", "area", "project", "tag", "list"}

\* C24 (as amended): a search_advanced call with a query opens one search URL
\* with the trimmed query; a date_range {start, end} is carried by the two
\* parameters start-date and end-date, each present exactly when its end of
\* the range is supplied and not empty; each of status, type, area, project,
\* tag, list is a parameter, with the supplied value, exactly when it is
\* supplied and not empty, and limit exactly when it is supplied and not 0;
\* there is no other parameter but the credential.
C24_AdvancedSearchFilters ==
    \A c \in Calls :
        (tool[c] = "search_advanced" /\ NonBlank(args[c].query)) =>
            /\ Len(opened[c]) = 1
            /\ CommandOf(TheUrl(c)) = <<"search">>
            /\ Sends(TheUrl(c), "query", Strip(args[c].query.s))
            /\ \A f \in FilterNames :
                   IF Truthy(Get(FilterOf(c), f))
                   THEN Sends(TheUrl(c), f, Get(FilterOf(c), f).s)
                   ELSE <<f>> \notin Keys(TheUrl(c))
            /\ IF Truthy(Get(RangeOf(c), "start"))
               THEN Sends(TheUrl(c), "start-date", Get(RangeOf(c), "start").s)
               ELSE <<"start-date">> \notin Keys(TheUrl(c))
            /\ IF Truthy(Get(RangeOf(c), "end"))
               THEN Sends(TheUrl(c), "end-date", Get(RangeOf(c), "end").s)
               ELSE <<"end-date">> \notin Keys(TheUrl(c))
            /\ IF Truthy(args[c].limit)
               THEN Sends(TheUrl(c), "limit", ToStr(args[c].limit))
               ELSE <<"limit">> \notin Keys(TheUrl(c))
            /\ Keys(TheUrl(c)) \subseteq
                   {<<"query">>, <<"auth-token">>, <<"start-date">>, <<"end-date">>, <<"limit">>}
                       \cup {<<f>> : f \in FilterNames}

\* A search_advanced call with a range of two dates and a limit has opened a
\* URL with start-date and end-date.
C24_Witness ==
    /\ tool["c1"] = "search_advanced" /\ opened["c1"] # <<>>
    /\ Truthy(Get(RangeOf("c1"), "start")) /\ Truthy(Get(RangeOf("c1"), "end"))
    /\ args["c1"].limit = Num(10)
    /\ Sends(TheUrl("c1"), "start-date", <<"2024-01-01">>)
    /\ Sends(TheUrl("c1"), "end-date", <<"2024-12-31">>)

\* C24 as stated: the range is carried by start-date and end-date, and each
\* optional filter is in the URL exactly when the caller supplied it.
C24_FilterExactlyWhenSupplied ==
    \A c \in Calls :
        (tool[c] = "search_advanced" /\ opened[c] # <<>>) =>
            /\ Len(opened[c]) = 1
            /\ RangeOf(c) # Undefined =>
                   /\ <<"start-date">> \in Keys(TheUrl(c)) <=> Get(RangeOf(c), "start") # Undefined
                   /\ <<"end-date">> \in Keys(TheUrl(c)) <=> Get(RangeOf(c), "end") # Undefined
            /\ \A f \in FilterNames :
                   <<f>> \in Keys(TheUrl(c)) <=> Get(FilterOf(c), f) # Undefined
            /\ <<"limit">> \in Keys(TheUrl(c)) <=> args[c].limit # Undefined

\* text holds the configured credential, as it is or percent-encoded.
ShowsCredential(text) ==
    /\ Truthy(authToken)
    /\ \/ Within(ToStr(authToken), text)
       \/ Within(encodeURIComponent(ToStr(authToken)), text)

\* C25: the configured credential appears in no line of the diagnostic log
\* and in no tool-call result or error message; it is only in the URLs handed
\* to open().
C25_CredentialOnlyInUrl ==
    \A c \in Calls :
        /\ \A n \in 1..Len(log[c]) : ~ShowsCredential(log[c][n])
        /\ outcome[c].kind = "result" => ~ShowsCredential(outcome[c].text)
        /\ outcome[c].kind \in {"error", "threw"} => ~ShowsCredential(outcome[c].msg)

\* The steps the call in slot c has still to take at most: three for each
\* item not yet begun (its iteration, its dispatch, its delay), fewer within
\* an item, one for a single dispatch that is pending.
StepsLeft(c) ==
    CASE pc[c] = "open" -> 1
      [] pc[c] = "loop" -> 3 * (Len(Items(tool[c], args[c])) - idx[c])
      [] pc[c] = "bopen" -> 3 * (Len(Items(tool[c], args[c])) - idx[c]) - 1
      [] pc[c] = "delay" -> 3 * (Len(Items(tool[c], args[c])) - idx[c]) - 2
      [] OTHER -> 0

\* Every step of a call that has started brings it nearer to its end, and a
\* call that has started and not ended always has a step to take once its
\* open() request returns or its timer fires: no handler waits for anything
\* else.
CallsProgress ==
    [][\A c \in Calls :
          pc[c] \in {"open", "loop", "bopen", "delay"} =>
              /\ StepsLeft(c) > 0
              /\ (pc'[c] # pc[c] \/ idx'[c] # idx[c]) => StepsLeft(c)' < StepsLeft(c)]_vars

\* C26: a batch call that has reached its loop over N items and has come to
\* its end has performed exactly N iterations and returns its report of N
\* lines.
C26_BatchRunsAllItems ==
    \A c \in Calls :
        (/\ tool[c] \in BatchTools /\ pc[c] = "done"
         /\ Handler(tool[c], platform, envToken, args[c]).k = "loop") =>
            /\ idx[c] = Len(Items(tool[c], args[c]))
            /\ Len(results[c]) = Len(Items(tool[c], args[c]))
            /\ outcome[c].kind = "result"

\* The lines that item n of the batch call in slot c can have in its report.
OwnLines(c, n) ==
    {SuccessLine(tool[c], args[c], n - 1),
     FailureLine(tool[c], args[c], n - 1, ExecFailed(OsError))}
        \cup (LET r == BatchItem(tool[c], args[c], n - 1)
              IN  IF r.k = "throw" THEN {FailureLine(tool[c], args[c], n - 1, r.msg)}
                  ELSE {})

\* C27: whatever other call is in progress, the records of a batch call are
\* one line for each of its own items handled so far, each a line of that
\* very item, its counters count exactly its own lines, and its report is
\* made of its own records and counters.
C27_ReportOfOwnItems ==
    \A c \in Calls :
        tool[c] \in BatchTools =>
            /\ Len(results[c]) = Processed(c)
            /\ \A n \in 1..Len(results[c]) : results[c][n] \in OwnLines(c, n)
            /\ successCount[c] =
                   Cardinality({n \in 1..Len(results[c]) :
                                   results[c][n] = SuccessLine(tool[c], args[c], n - 1)})
            /\ successCount[c] + failureCount[c] = Len(results[c])
            /\ outcome[c].kind = "result" =>
                   /\ Len(results[c]) = Len(Items(tool[c], args[c]))
                   /\ outcome[c].text = Report(tool[c], args[c], successCount[c],
                                               failureCount[c], results[c])

\* Two batch calls with different items overlap: the first has its report
\* with a failure while the second is between two of its items.
C27_Witness ==
    /\ tool["c1"] = "batch_add_todos" /\ tool["c2"] = "batch_add_todos"
    /\ args["c1"] # args["c2"]
    /\ pc["c1"] = "done" /\ outcome["c1"].kind = "result" /\ failureCount["c1"] > 0
    /\ pc["c2"] = "delay" /\ successCount["c2"] > 0

\* C28: every URL opened by a call of a tool that requires the credential
\* (update_todo, update_project, complete_todo and the three batch tools)
\* carries the auth-token parameter, also when the environment variable was
\* set or cleared after the client was constructed.
C28_CheckedCallsSendCredential ==
    \A c \in Calls :
        tool[c] \in {"update_todo", "update_project", "complete_todo", "batch_add_todos",
                     "batch_complete_todos", "batch_update_todos"} =>
            \A n \in 1..Len(opened[c]) : <<"auth-token">> \in Keys(opened[c][n])

\* The update fields of batch_update_todos.
BatchUpdateFields == {"title", "notes", "when", "deadline", "tags", "list"}

\* C29: every URL opened by a batch_update_todos call is an update URL with
\* id and at least one of title, notes, when, deadline, tags, list; a call
\* whose updates hold none of them opens nothing.
C29_UpdateCarriesAField ==
    \A c \in Calls :
        tool[c] = "batch_update_todos" =>
            \A n \in 1..Len(opened[c]) :
                /\ CommandOf(opened[c][n]) = <<"update">>
                /\ <<"id">> \in Keys(opened[c][n])
                /\ \E f \in BatchUpdateFields : <<f>> \in Keys(opened[c][n])

\* C30: an add_project call whose todos array is empty or holds only blank
\* strings opens a URL without a todos parameter, and its confirmation names
\* no initial to-dos; a todos parameter is sent only when a non-blank child
\* title remains.
C30_NoTodosKeyWhenNoneRemain ==
    \A c \in Calls :
        (/\ tool[c] = "add_project" /\ opened[c] # <<>>
         /\ args[c].todos.t = "array"
         /\ \A n \in 1..Len(args[c].todos.a) : Blank(args[c].todos.a[n])) =>
            /\ <<"todos">> \notin Keys(TheUrl(c))
            /\ outcome[c].kind = "result" =>
                   ~Within(<<" initial to-do(s)">>, outcome[c].text)

====
